---- MODULE Spec2Model ----
(***************************************************************************)
(* A model of self_concepts.py: Relationship (edge), Ontology (graph) and  *)
(* Blackboard (dispatcher).  Python object identity is modelled by names:  *)
(* every instance is a distinct string, every class is its class name.     *)
(* A SelfException is modelled by its kind, recorded in lastCall.outcome:  *)
(*   'is not well-formed'  -> "NotWellFormed"                              *)
(*   'already exists' / 'is already subscribed' -> "AlreadyExists"         *)
(*   'does not exist'      -> "NotFound"                                   *)
(*   'is bound'            -> "Bound"                                      *)
(*   'is not closed'       -> "NotClosed"                                  *)
(***************************************************************************)
EXTENDS Integers, FiniteSets, Sequences, Bags

\* ------------------------------------------------------------------ bounds
NumConcepts == 2
NumRelationships == 2
NumAgents == 2
NumProperties == 3
\* The number of calls made on the Blackboard in one behaviour.
MaxCalls == 4

\* ---------------------------------------------------------- the universe
ConceptNames == <<"c1", "c2", "c3", "c4">>
RelationshipNames == <<"r1", "r2", "r3", "r4">>
AgentNames == <<"a1", "a2", "a3", "a4">>
PropertyNames == <<"p1", "p2", "p3", "p4">>

Concepts == {ConceptNames[i] : i \in 1..NumConcepts}
Relationships == {RelationshipNames[i] : i \in 1..NumRelationships}
Agents == {AgentNames[i] : i \in 1..NumAgents}
Properties == {PropertyNames[i] : i \in 1..NumProperties}

\* The Blackboard of the tests.
TheBlackboard == "b1"

None == "None"
IllFormed == "An ill-formed concept"

\* The classes of the program that the model uses, with their base class.
Superclass ==
  [k \in {"Concept", "AnotherConcept", "Property", "AnotherProperty", "Relationship",
           "Agent", "Blackboard", "SelfException", "str", "type"} |->
     CASE k = "Concept" -> "object"
       [] k = "AnotherConcept" -> "Concept"
       [] k = "Property" -> "Concept"
       [] k = "AnotherProperty" -> "Property"
       [] k = "Relationship" -> "Concept"
       [] k = "Agent" -> "Concept"
       [] k = "Blackboard" -> "Concept"
       [] k = "SelfException" -> "object"
       [] k = "str" -> "object"
       [] k = "type" -> "object"]

Classes == DOMAIN Superclass

\* The concept classes a caller names as an edge or subscribes to.
ConceptClasses == {"Concept", "AnotherConcept"}

\* The class of every concept instance: c1 is an AnotherConcept, the others Concepts.
ConceptClassOf == <<"AnotherConcept", "Concept", "Concept", "Concept">>

\* The properties: p1 and p2 are two Property instances with the same name
\* and the same value, p3 and p4 are AnotherProperty instances.
PropertyClassOf == <<"Property", "Property", "AnotherProperty", "AnotherProperty">>
PropertyNameOf == <<"A well-formed property", "A well-formed property",
                    "Another well-formed property", "A well-formed property">>
PropertyValueOf == <<"A value", "A value", "c1", "A value">>

IndexOf(property) == CHOOSE i \in 1..NumProperties : PropertyNames[i] = property

ClassOf(v) ==
  IF v \in Concepts THEN ConceptClassOf[CHOOSE i \in 1..NumConcepts : ConceptNames[i] = v]
  ELSE IF v \in Properties THEN PropertyClassOf[IndexOf(v)]
  ELSE IF v \in Relationships THEN "Relationship"
  ELSE IF v \in Agents THEN "Agent"
  ELSE IF v = TheBlackboard THEN "Blackboard"
  ELSE IF v \in Classes THEN "type"
  ELSE "str"

RECURSIVE issubclass(_, _)
issubclass(k, base) ==
  IF k = base THEN TRUE
  ELSE IF k \notin Classes THEN FALSE
  ELSE issubclass(Superclass[k], base)

isinstance(v, k) == issubclass(ClassOf(v), k)

\* 'isinstance(edge, Concept) or issubclass(edge, Concept)'; issubclass of a
\* non-class raises TypeError, which the callers turn into 'not well-formed'.
EdgeIsWellFormed(edge) ==
  \/ isinstance(edge, "Concept")
  \/ (edge \in Classes /\ issubclass(edge, "Concept"))

\* ------------------------------------------------------------------- state
VARIABLES
  edge1,            \* Relationship._edge1 of every relationship (None: not constructed)
  edge2,            \* Relationship._edge2
  o_concepts,       \* Ontology._concepts
  o_relationships,  \* Ontology._relationships
  properties,       \* Concept._properties of a concept and of a relationship
  edge1Properties,  \* Relationship._edge1Properties
  edge2Properties,  \* Relationship._edge2Properties
  visited,          \* the properties the last iteration applied its function to: a bag
  b_concepts,              \* Blackboard._concepts
  b_publications,          \* Blackboard._publications: a bag of (edge1: agent, edge2: concept)
  b_conceptSubscriptions,  \* Blackboard._conceptSubscriptions: a bag of (agent, concept)
  b_classSubscriptions,    \* Blackboard._classSubscriptions: a bag of (agent, concept class)
  calls,                   \* the number of calls made on the Blackboard so far
  delivered,               \* the calls of Agent.signal made by the last call, in order
  observed,                \* what the Blackboard held when it made them
  lastCall                 \* the last call made and how it ended

ovars == <<edge1, edge2, o_concepts, o_relationships>>
pvars == <<properties, edge1Properties, edge2Properties, visited>>
bvars == <<b_concepts, b_publications, b_conceptSubscriptions, b_classSubscriptions>>
vars == <<edge1, edge2, o_concepts, o_relationships,
          properties, edge1Properties, edge2Properties, visited,
          b_concepts, b_publications, b_conceptSubscriptions, b_classSubscriptions,
          calls, delivered, observed, lastCall>>

\* The sequence delivered has one bag for every signal call or loop of signal
\* calls that the last call ran, in the order in which it ran them: a loop
\* over a set visits its members in no order the program fixes, so the signals
\* of one loop are a bag.
Round(B) == IF B = EmptyBag THEN <<>> ELSE <<B>>

RECURSIVE BagSum(_)
BagSum(rounds) == IF rounds = <<>> THEN EmptyBag ELSE Head(rounds) (+) BagSum(Tail(rounds))

\* The calls of Agent.signal made by the last call, whatever their order: a bag.
signals == BagSum(delivered)

\* What the Blackboard holds while it makes the signal calls of one element of
\* delivered.  loop says what the loop that makes them does to
\* _conceptSubscriptions before each call: "add" (it adds the record the signal
\* is about), "remove" (it removes it) or "none"; conceptSubscriptions is the
\* value before the first pass of the loop.
Seen(concepts, publications, conceptSubscriptions, loop) ==
  [concepts |-> concepts, publications |-> publications,
   conceptSubscriptions |-> conceptSubscriptions,
   classSubscriptions |-> b_classSubscriptions, loop |-> loop]

\* The collections of the Blackboard as they are.
Observed == Seen(b_concepts, b_publications, b_conceptSubscriptions, "none")

\* The same observation for every element of rounds.
Each(rounds, observation) == [i \in DOMAIN rounds |-> observation]

\* The objects whose properties the model follows: a concept and a relationship.
Holders == {ConceptNames[1], RelationshipNames[1]}

\* Concept.__init__ and Relationship.__init__ leave the sets of properties empty.
PropertiesInit ==
  /\ properties = [h \in Holders |-> {}]
  /\ edge1Properties = {}
  /\ edge2Properties = {}
  /\ visited = EmptyBag

Call(op, a, b, outcome) == [op |-> op, a |-> a, b |-> b, outcome |-> outcome]

Init ==
  /\ edge1 = [r \in Relationships |-> None]
  /\ edge2 = [r \in Relationships |-> None]
  /\ o_concepts = {}
  /\ o_relationships = {}
  /\ PropertiesInit
  /\ b_concepts = {}
  /\ b_publications = EmptyBag
  /\ b_conceptSubscriptions = EmptyBag
  /\ b_classSubscriptions = EmptyBag
  /\ calls = 0
  /\ delivered = <<>>
  /\ observed = <<>>
  /\ lastCall = Call("init", None, None, "ok")

\* ------------------------------------------------------------ Relationship
Endpoints == Concepts \cup {"Concept"} \cup {IllFormed}

\* Relationship.__init__
NewRelationship(r, e1, e2) ==
  /\ edge1[r] = None
  /\ IF EdgeIsWellFormed(e1) /\ EdgeIsWellFormed(e2)
       THEN /\ edge1' = [edge1 EXCEPT ![r] = e1]
            /\ edge2' = [edge2 EXCEPT ![r] = e2]
            /\ lastCall' = Call("Relationship", e1, e2, "ok")
       ELSE /\ UNCHANGED <<edge1, edge2>>
            /\ lastCall' = Call("Relationship", e1, e2, "NotWellFormed")
  /\ UNCHANGED <<o_concepts, o_relationships>>
  /\ UNCHANGED <<pvars, bvars, calls, delivered, observed>>

Constructed == {r \in Relationships : edge1[r] # None}

\* ---------------------------------------------------------------- Ontology
\* conceptIsBound with the scan of edge2 forgotten.
conceptIsBound_edge1Only(concept) ==
  \E relationship \in o_relationships : edge1[relationship] = concept

\* Ontology.conceptIsBound (for a well-formed concept)
conceptIsBound(concept) ==
  \E relationship \in o_relationships :
     edge1[relationship] = concept \/ edge2[relationship] = concept

\* Ontology.addConcept
addConcept(concept) ==
  /\ IF isinstance(concept, "Concept")
       THEN IF concept \notin o_concepts
              THEN /\ o_concepts' = o_concepts \cup {concept}
                   /\ lastCall' = Call("addConcept", concept, None, "ok")
              ELSE /\ UNCHANGED o_concepts
                   /\ lastCall' = Call("addConcept", concept, None, "AlreadyExists")
       ELSE /\ UNCHANGED o_concepts
            /\ lastCall' = Call("addConcept", concept, None, "NotWellFormed")
  /\ UNCHANGED <<edge1, edge2, o_relationships>>
  /\ UNCHANGED <<pvars, bvars, calls, delivered, observed>>

\* Ontology.removeConcept
removeConcept(concept) ==
  /\ IF ~isinstance(concept, "Concept")
       THEN /\ UNCHANGED o_concepts
            /\ lastCall' = Call("removeConcept", concept, None, "NotWellFormed")
       ELSE IF ~conceptIsBound(concept)
              THEN IF concept \in o_concepts
                     THEN /\ o_concepts' = o_concepts \ {concept}
                          /\ lastCall' = Call("removeConcept", concept, None, "ok")
                     ELSE /\ UNCHANGED o_concepts
                          /\ lastCall' = Call("removeConcept", concept, None, "NotFound")
              ELSE /\ UNCHANGED o_concepts
                   /\ lastCall' = Call("removeConcept", concept, None, "Bound")
  /\ UNCHANGED <<edge1, edge2, o_relationships>>
  /\ UNCHANGED <<pvars, bvars, calls, delivered, observed>>

\* removeAllConcepts removing concept by concept until it meets a bound one.
removeAllConcepts_partial ==
  /\ IF \E concept \in o_concepts : conceptIsBound(concept)
       THEN /\ \E kept \in SUBSET o_concepts :
                 /\ \E concept \in kept : conceptIsBound(concept)
                 /\ o_concepts' = kept
            /\ lastCall' = Call("removeAllConcepts", None, None, "Bound")
       ELSE /\ o_concepts' = {}
            /\ lastCall' = Call("removeAllConcepts", None, None, "ok")
  /\ UNCHANGED <<edge1, edge2, o_relationships>>
  /\ UNCHANGED <<pvars, bvars, calls, delivered, observed>>

\* Ontology.removeAllConcepts
removeAllConcepts ==
  /\ IF \E concept \in o_concepts : conceptIsBound(concept)
       THEN /\ UNCHANGED o_concepts
            /\ lastCall' = Call("removeAllConcepts", None, None, "Bound")
       ELSE /\ o_concepts' = {}
            /\ lastCall' = Call("removeAllConcepts", None, None, "ok")
  /\ UNCHANGED <<edge1, edge2, o_relationships>>
  /\ UNCHANGED <<pvars, bvars, calls, delivered, observed>>

\* addRelationship with the closure test of edge2 forgotten.
addRelationship_edge1Only(relationship) ==
  /\ IF isinstance(relationship, "Relationship")
       THEN IF relationship \notin o_relationships
              THEN IF edge1[relationship] \in o_concepts
                     THEN /\ o_relationships' = o_relationships \cup {relationship}
                          /\ lastCall' = Call("addRelationship", relationship, None, "ok")
                     ELSE /\ UNCHANGED o_relationships
                          /\ lastCall' = Call("addRelationship", relationship, None, "NotClosed")
              ELSE /\ UNCHANGED o_relationships
                   /\ lastCall' = Call("addRelationship", relationship, None, "AlreadyExists")
       ELSE /\ UNCHANGED o_relationships
            /\ lastCall' = Call("addRelationship", relationship, None, "NotWellFormed")
  /\ UNCHANGED <<edge1, edge2, o_concepts>>
  /\ UNCHANGED <<pvars, bvars, calls, delivered, observed>>

\* addRelationship with "or" for "and" in the closure test.
addRelationship_eitherEdge(relationship) ==
  /\ IF isinstance(relationship, "Relationship")
       THEN IF relationship \notin o_relationships
              THEN IF edge1[relationship] \in o_concepts \/ edge2[relationship] \in o_concepts
                     THEN /\ o_relationships' = o_relationships \cup {relationship}
                          /\ lastCall' = Call("addRelationship", relationship, None, "ok")
                     ELSE /\ UNCHANGED o_relationships
                          /\ lastCall' = Call("addRelationship", relationship, None, "NotClosed")
              ELSE /\ UNCHANGED o_relationships
                   /\ lastCall' = Call("addRelationship", relationship, None, "AlreadyExists")
       ELSE /\ UNCHANGED o_relationships
            /\ lastCall' = Call("addRelationship", relationship, None, "NotWellFormed")
  /\ UNCHANGED <<edge1, edge2, o_concepts>>
  /\ UNCHANGED <<pvars, bvars, calls, delivered, observed>>

\* Ontology.addRelationship
addRelationship(relationship) ==
  /\ IF isinstance(relationship, "Relationship")
       THEN IF relationship \notin o_relationships
              THEN IF edge1[relationship] \in o_concepts /\ edge2[relationship] \in o_concepts
                     THEN /\ o_relationships' = o_relationships \cup {relationship}
                          /\ lastCall' = Call("addRelationship", relationship, None, "ok")
                     ELSE /\ UNCHANGED o_relationships
                          /\ lastCall' = Call("addRelationship", relationship, None, "NotClosed")
              ELSE /\ UNCHANGED o_relationships
                   /\ lastCall' = Call("addRelationship", relationship, None, "AlreadyExists")
       ELSE /\ UNCHANGED o_relationships
            /\ lastCall' = Call("addRelationship", relationship, None, "NotWellFormed")
  /\ UNCHANGED <<edge1, edge2, o_concepts>>
  /\ UNCHANGED <<pvars, bvars, calls, delivered, observed>>

\* Ontology.removeRelationship
removeRelationship(relationship) ==
  /\ IF isinstance(relationship, "Relationship")
       THEN IF relationship \in o_relationships
              THEN /\ o_relationships' = o_relationships \ {relationship}
                   /\ lastCall' = Call("removeRelationship", relationship, None, "ok")
              ELSE /\ UNCHANGED o_relationships
                   /\ lastCall' = Call("removeRelationship", relationship, None, "NotFound")
       ELSE /\ UNCHANGED o_relationships
            /\ lastCall' = Call("removeRelationship", relationship, None, "NotWellFormed")
  /\ UNCHANGED <<edge1, edge2, o_concepts>>
  /\ UNCHANGED <<pvars, bvars, calls, delivered, observed>>

\* Ontology.removeAllRelationships
removeAllRelationships ==
  /\ o_relationships' = {}
  /\ lastCall' = Call("removeAllRelationships", None, None, "ok")
  /\ UNCHANGED <<edge1, edge2, o_concepts>>
  /\ UNCHANGED <<pvars, bvars, calls, delivered, observed>>

ConceptArgs == Concepts \cup {IllFormed}
RelationshipArgs == Constructed \cup {IllFormed}

OntologyNext ==
  \/ \E r \in Relationships, e1 \in Endpoints, e2 \in Endpoints : NewRelationship(r, e1, e2)
  \/ \E concept \in ConceptArgs : addConcept(concept)
  \/ \E concept \in ConceptArgs : removeConcept(concept)
  \/ removeAllConcepts
  \/ \E relationship \in RelationshipArgs : addRelationship(relationship)
  \/ \E relationship \in RelationshipArgs : removeRelationship(relationship)
  \/ removeAllRelationships

OntologySpec == Init /\ [][OntologyNext]_vars

\* ------------------------------------------- reassignment of the edges
\* The setter of Relationship.edge1: the edge is tested as in __init__ and
\* assigned; no Ontology is consulted.
edge1_setter(r, edge) ==
  /\ r \in Constructed
  /\ IF EdgeIsWellFormed(edge)
       THEN /\ edge1' = [edge1 EXCEPT ![r] = edge]
            /\ lastCall' = Call("edge1", r, edge, "ok")
       ELSE /\ UNCHANGED edge1
            /\ lastCall' = Call("edge1", r, edge, "NotWellFormed")
  /\ UNCHANGED <<edge2, o_concepts, o_relationships>>
  /\ UNCHANGED <<pvars, bvars, calls, delivered, observed>>

\* The setter of edge2 refusing, for a resident relationship, a concept that
\* is not a member of the Ontology.
edge2_setter_closed(r, edge) ==
  /\ r \in Constructed
  /\ IF EdgeIsWellFormed(edge)
       THEN IF r \in o_relationships /\ edge \in Concepts \ o_concepts
              THEN /\ UNCHANGED edge2
                   /\ lastCall' = Call("edge2", r, edge, "NotClosed")
              ELSE /\ edge2' = [edge2 EXCEPT ![r] = edge]
                   /\ lastCall' = Call("edge2", r, edge, "ok")
       ELSE /\ UNCHANGED edge2
            /\ lastCall' = Call("edge2", r, edge, "NotWellFormed")
  /\ UNCHANGED <<edge1, o_concepts, o_relationships>>
  /\ UNCHANGED <<pvars, bvars, calls, delivered, observed>>

\* The setter of Relationship.edge2
edge2_setter(r, edge) ==
  /\ r \in Constructed
  /\ IF EdgeIsWellFormed(edge)
       THEN /\ edge2' = [edge2 EXCEPT ![r] = edge]
            /\ lastCall' = Call("edge2", r, edge, "ok")
       ELSE /\ UNCHANGED edge2
            /\ lastCall' = Call("edge2", r, edge, "NotWellFormed")
  /\ UNCHANGED <<edge1, o_concepts, o_relationships>>
  /\ UNCHANGED <<pvars, bvars, calls, delivered, observed>>

\* The relationships as the tests construct them before they use them:
\* r1 = Relationship(.., c1, c2), r2 = Relationship(.., c2, c3), ..., the last
\* one back to c1.
FixtureEdge1 == [r \in Relationships |->
                   ConceptNames[CHOOSE i \in 1..NumRelationships : RelationshipNames[i] = r]]
FixtureEdge2 == [r \in Relationships |->
                   LET i == CHOOSE j \in 1..NumRelationships : RelationshipNames[j] = r
                   IN ConceptNames[(i % NumConcepts) + 1]]

\* The state after the construction of the relationships, of an Ontology and
\* of a Blackboard.
FixtureInit ==
  /\ edge1 = FixtureEdge1
  /\ edge2 = FixtureEdge2
  /\ o_concepts = {}
  /\ o_relationships = {}
  /\ PropertiesInit
  /\ b_concepts = {}
  /\ b_publications = EmptyBag
  /\ b_conceptSubscriptions = EmptyBag
  /\ b_classSubscriptions = EmptyBag
  /\ calls = 0
  /\ delivered = <<>>
  /\ observed = <<>>
  /\ lastCall = Call("init", None, None, "ok")

\* The relationship whose edges are reassigned.
Reassigned == RelationshipNames[1]

\* The values assigned to an edge: concepts, the class Concept, and two
\* ill-formed ones, a str and a class that does not derive from Concept.
EdgeArgs == Endpoints \cup {"str"}

\* The operations of an Ontology on the constructed relationships together
\* with the reassignment of the edges of one of them, resident or not.
ReassignNext ==
  \/ \E concept \in ConceptArgs : addConcept(concept)
  \/ \E concept \in ConceptArgs : removeConcept(concept)
  \/ removeAllConcepts
  \/ \E relationship \in RelationshipArgs : addRelationship(relationship)
  \/ \E relationship \in RelationshipArgs : removeRelationship(relationship)
  \/ removeAllRelationships
  \/ \E edge \in EdgeArgs : edge1_setter(Reassigned, edge)
  \/ \E edge \in EdgeArgs : edge2_setter(Reassigned, edge)

ReassignSpec == FixtureInit /\ [][ReassignNext]_vars

\* ---------------------------------- the properties of concepts and edges
NameOf(property) == PropertyNameOf[IndexOf(property)]

\* addProperty taking for a member every property that has the name and the
\* value of a member.
addProperty_byNameAndValue(h, property) ==
  /\ IF isinstance(property, "Property")
       THEN IF \A member \in properties[h] :
                  \/ NameOf(member) # NameOf(property)
                  \/ PropertyValueOf[IndexOf(member)] # PropertyValueOf[IndexOf(property)]
              THEN /\ properties' = [properties EXCEPT ![h] = @ \cup {property}]
                   /\ lastCall' = Call("addProperty", h, property, "ok")
              ELSE /\ UNCHANGED properties
                   /\ lastCall' = Call("addProperty", h, property, "AlreadyExists")
       ELSE /\ UNCHANGED properties
            /\ lastCall' = Call("addProperty", h, property, "NotWellFormed")
  /\ visited' = EmptyBag
  /\ UNCHANGED <<edge1Properties, edge2Properties>>
  /\ UNCHANGED <<ovars, bvars, calls, delivered, observed>>

\* Concept.addProperty
addProperty(h, property) ==
  /\ IF isinstance(property, "Property")
       THEN IF property \notin properties[h]
              THEN /\ properties' = [properties EXCEPT ![h] = @ \cup {property}]
                   /\ lastCall' = Call("addProperty", h, property, "ok")
              ELSE /\ UNCHANGED properties
                   /\ lastCall' = Call("addProperty", h, property, "AlreadyExists")
       ELSE /\ UNCHANGED properties
            /\ lastCall' = Call("addProperty", h, property, "NotWellFormed")
  /\ visited' = EmptyBag
  /\ UNCHANGED <<edge1Properties, edge2Properties>>
  /\ UNCHANGED <<ovars, bvars, calls, delivered, observed>>

\* Concept.removeProperty: set.remove raises KeyError for a property that is
\* not a member.
removeProperty(h, property) ==
  /\ IF isinstance(property, "Property")
       THEN IF property \in properties[h]
              THEN /\ properties' = [properties EXCEPT ![h] = @ \ {property}]
                   /\ lastCall' = Call("removeProperty", h, property, "ok")
              ELSE /\ UNCHANGED properties
                   /\ lastCall' = Call("removeProperty", h, property, "NotFound")
       ELSE /\ UNCHANGED properties
            /\ lastCall' = Call("removeProperty", h, property, "NotWellFormed")
  /\ visited' = EmptyBag
  /\ UNCHANGED <<edge1Properties, edge2Properties>>
  /\ UNCHANGED <<ovars, bvars, calls, delivered, observed>>

\* Concept.removeAllProperties
removeAllProperties(h) ==
  /\ properties' = [properties EXCEPT ![h] = {}]
  /\ lastCall' = Call("removeAllProperties", h, None, "ok")
  /\ visited' = EmptyBag
  /\ UNCHANGED <<edge1Properties, edge2Properties>>
  /\ UNCHANGED <<ovars, bvars, calls, delivered, observed>>

\* Concept.propertyExists: the outcome and the value returned.
propertyExists(h, property) ==
  IF isinstance(property, "Property")
    THEN [outcome |-> "ok", value |-> property \in properties[h]]
    ELSE [outcome |-> "NotWellFormed", value |-> FALSE]

\* Concept.numberOfProperties
numberOfProperties(h) == Cardinality(properties[h])

\* iterateOverProperties selecting by 'type(property) == propertyClass'.
iterateOverProperties_exactClass(h, name, propertyClass) ==
  /\ IF propertyClass = None
       THEN /\ visited' = SetToBag({property \in properties[h] :
                                      name = None \/ NameOf(property) = name})
            /\ lastCall' = Call("iterateOverProperties", name, propertyClass, "ok")
       ELSE IF propertyClass \notin Classes
         THEN /\ visited' = EmptyBag
              /\ lastCall' = Call("iterateOverProperties", name, propertyClass, "NotWellFormed")
         ELSE IF ~issubclass(propertyClass, "Property")
           THEN /\ visited' = EmptyBag
                /\ lastCall' =
                     Call("iterateOverProperties", name, propertyClass, "NotWellFormed")
           ELSE /\ visited' = SetToBag({property \in properties[h] :
                                          /\ ClassOf(property) = propertyClass
                                          /\ name = None \/ NameOf(property) = name})
                /\ lastCall' = Call("iterateOverProperties", name, propertyClass, "ok")
  /\ UNCHANGED <<properties, edge1Properties, edge2Properties>>
  /\ UNCHANGED <<ovars, bvars, calls, delivered, observed>>

\* Concept.iterateOverProperties: function is applied to every member that
\* the name and the class select, once (the loop runs over the set).
\* issubclass raises TypeError for a propertyClass that is not a class.
iterateOverProperties(h, name, propertyClass) ==
  /\ IF propertyClass = None
       THEN /\ visited' = SetToBag({property \in properties[h] :
                                      name = None \/ NameOf(property) = name})
            /\ lastCall' = Call("iterateOverProperties", name, propertyClass, "ok")
       ELSE IF propertyClass \notin Classes
         THEN /\ visited' = EmptyBag
              /\ lastCall' = Call("iterateOverProperties", name, propertyClass, "NotWellFormed")
         ELSE IF ~issubclass(propertyClass, "Property")
           THEN /\ visited' = EmptyBag
                /\ lastCall' =
                     Call("iterateOverProperties", name, propertyClass, "NotWellFormed")
           ELSE /\ visited' = SetToBag({property \in properties[h] :
                                          /\ isinstance(property, propertyClass)
                                          /\ name = None \/ NameOf(property) = name})
                /\ lastCall' = Call("iterateOverProperties", name, propertyClass, "ok")
  /\ UNCHANGED <<properties, edge1Properties, edge2Properties>>
  /\ UNCHANGED <<ovars, bvars, calls, delivered, observed>>

\* Relationship.EDGE1 and Relationship.EDGE2, the selectors of an edge.
EDGE1 == "EDGE1"
EDGE2 == "EDGE2"

\* Relationship.addEdgeProperty, of the relationship RelationshipNames[1]
addEdgeProperty(edge, property) ==
  /\ IF isinstance(property, "Property")
       THEN IF edge = EDGE1
              THEN IF property \notin edge1Properties
                     THEN /\ edge1Properties' = edge1Properties \cup {property}
                          /\ UNCHANGED edge2Properties
                          /\ lastCall' = Call("addEdgeProperty", edge, property, "ok")
                     ELSE /\ UNCHANGED <<edge1Properties, edge2Properties>>
                          /\ lastCall' = Call("addEdgeProperty", edge, property, "AlreadyExists")
              ELSE IF property \notin edge2Properties
                     THEN /\ edge2Properties' = edge2Properties \cup {property}
                          /\ UNCHANGED edge1Properties
                          /\ lastCall' = Call("addEdgeProperty", edge, property, "ok")
                     ELSE /\ UNCHANGED <<edge1Properties, edge2Properties>>
                          /\ lastCall' = Call("addEdgeProperty", edge, property, "AlreadyExists")
       ELSE /\ UNCHANGED <<edge1Properties, edge2Properties>>
            /\ lastCall' = Call("addEdgeProperty", edge, property, "NotWellFormed")
  /\ visited' = EmptyBag
  /\ UNCHANGED properties
  /\ UNCHANGED <<ovars, bvars, calls, delivered, observed>>

\* Relationship.removeEdgeProperty
removeEdgeProperty(edge, property) ==
  /\ IF isinstance(property, "Property")
       THEN IF edge = EDGE1
              THEN IF property \in edge1Properties
                     THEN /\ edge1Properties' = edge1Properties \ {property}
                          /\ UNCHANGED edge2Properties
                          /\ lastCall' = Call("removeEdgeProperty", edge, property, "ok")
                     ELSE /\ UNCHANGED <<edge1Properties, edge2Properties>>
                          /\ lastCall' = Call("removeEdgeProperty", edge, property, "NotFound")
              ELSE IF property \in edge2Properties
                     THEN /\ edge2Properties' = edge2Properties \ {property}
                          /\ UNCHANGED edge1Properties
                          /\ lastCall' = Call("removeEdgeProperty", edge, property, "ok")
                     ELSE /\ UNCHANGED <<edge1Properties, edge2Properties>>
                          /\ lastCall' = Call("removeEdgeProperty", edge, property, "NotFound")
       ELSE /\ UNCHANGED <<edge1Properties, edge2Properties>>
            /\ lastCall' = Call("removeEdgeProperty", edge, property, "NotWellFormed")
  /\ visited' = EmptyBag
  /\ UNCHANGED properties
  /\ UNCHANGED <<ovars, bvars, calls, delivered, observed>>

\* removeAllEdgeProperties clearing the properties of both edges.
removeAllEdgeProperties_bothEdges(edge) ==
  /\ edge1Properties' = {}
  /\ edge2Properties' = {}
  /\ lastCall' = Call("removeAllEdgeProperties", edge, None, "ok")
  /\ visited' = EmptyBag
  /\ UNCHANGED properties
  /\ UNCHANGED <<ovars, bvars, calls, delivered, observed>>

\* Relationship.removeAllEdgeProperties
removeAllEdgeProperties(edge) ==
  /\ IF edge = EDGE1
       THEN edge1Properties' = {} /\ UNCHANGED edge2Properties
       ELSE edge2Properties' = {} /\ UNCHANGED edge1Properties
  /\ lastCall' = Call("removeAllEdgeProperties", edge, None, "ok")
  /\ visited' = EmptyBag
  /\ UNCHANGED properties
  /\ UNCHANGED <<ovars, bvars, calls, delivered, observed>>

\* Relationship.edgePropertyExists: the outcome and the value returned.
edgePropertyExists(edge, property) ==
  IF isinstance(property, "Property")
    THEN [outcome |-> "ok",
          value |-> IF edge = EDGE1 THEN property \in edge1Properties
                    ELSE property \in edge2Properties]
    ELSE [outcome |-> "NotWellFormed", value |-> FALSE]

\* Relationship.numberOfEdgeProperties
numberOfEdgeProperties(edge) ==
  IF edge = EDGE1 THEN Cardinality(edge1Properties) ELSE Cardinality(edge2Properties)

\* The arguments of the calls: the properties and a str; the names of the
\* properties, a name that no property has, and None; the Property classes,
\* a class that is not a Property class, a str, and None.
PropertyArgs == Properties \cup {IllFormed}
NameArgs == {NameOf(property) : property \in Properties} \cup {"No such property", None}
PropertyClassArgs == {"Property", "AnotherProperty", "Concept", IllFormed, None}

\* The concept and the relationship whose properties are followed.
TheConcept == ConceptNames[1]
TheRelationship == RelationshipNames[1]

\* The calls on the properties of a concept.
ConceptNext ==
  \/ \E property \in PropertyArgs : addProperty(TheConcept, property)
  \/ \E property \in PropertyArgs : removeProperty(TheConcept, property)
  \/ removeAllProperties(TheConcept)
  \/ \E name \in NameArgs, propertyClass \in PropertyClassArgs :
       iterateOverProperties(TheConcept, name, propertyClass)

ConceptSpec == Init /\ [][ConceptNext]_vars

\* The calls on the properties of a relationship: its own, as a concept, and
\* those of its two edges.
RelationshipNext ==
  \/ \E property \in PropertyArgs : addProperty(TheRelationship, property)
  \/ \E property \in PropertyArgs : removeProperty(TheRelationship, property)
  \/ removeAllProperties(TheRelationship)
  \/ \E edge \in {EDGE1, EDGE2}, property \in PropertyArgs : addEdgeProperty(edge, property)
  \/ \E edge \in {EDGE1, EDGE2}, property \in PropertyArgs : removeEdgeProperty(edge, property)
  \/ \E edge \in {EDGE1, EDGE2} : removeAllEdgeProperties(edge)

RelationshipSpec == FixtureInit /\ [][RelationshipNext]_vars

\* ------------------------------------------------- properties of Ontology
\* An edge names a concrete node when it is a Concept instance, not a class.
IsConcrete(edge) == edge \in Concepts

\* Some resident relationship has a concrete edge equal to n.
Referenced(n) ==
  \E e \in o_relationships :
     (IsConcrete(edge1[e]) /\ edge1[e] = n) \/ (IsConcrete(edge2[e]) /\ edge2[e] = n)

\* C1: closure.  After any sequence of addConcept, removeConcept,
\* removeAllConcepts, addRelationship, removeRelationship and
\* removeAllRelationships, calls that fail included, every edge of every
\* resident relationship that names a concrete concept is a member of the
\* Ontology's concepts.
C1_Closure ==
  \A e \in o_relationships :
     /\ IsConcrete(edge1[e]) => edge1[e] \in o_concepts
     /\ IsConcrete(edge2[e]) => edge2[e] \in o_concepts

\* C1 witness: a removeConcept has just been refused on a graph holding a
\* relationship between two different concepts.
C1_Witness ==
  /\ lastCall.op = "removeConcept" /\ lastCall.outcome = "Bound"
  /\ \E e \in o_relationships : edge1[e] # edge2[e] /\ edge2[e] = lastCall.a

\* C2: for a member n, removeConcept(n) fails with Bound iff a resident
\* relationship has a concrete edge equal to n; a failed call changes nothing, a
\* successful one removes exactly n; for n neither member nor referenced it
\* fails with NotFound.  (Hence it succeeds once the last relationship
\* referencing a member has been removed.)
C2_RemoveConcept ==
  [][\A n \in Concepts :
       (lastCall'.op = "removeConcept" /\ lastCall'.a = n) =>
          /\ n \in o_concepts => (lastCall'.outcome = "Bound" <=> Referenced(n))
          /\ (n \in o_concepts /\ ~Referenced(n)) => lastCall'.outcome = "ok"
          /\ lastCall'.outcome # "ok" => UNCHANGED ovars
          /\ lastCall'.outcome = "ok" =>
               /\ o_concepts' = o_concepts \ {n}
               /\ n \in o_concepts
               /\ UNCHANGED <<edge1, edge2, o_relationships>>
          /\ (n \notin o_concepts /\ ~Referenced(n)) => lastCall'.outcome = "NotFound"]_vars

\* C2 witness: removeConcept(n) has succeeded while a relationship naming n
\* as its second edge exists outside the Ontology (it was removed, or never added).
C2_Witness ==
  /\ lastCall.op = "removeConcept" /\ lastCall.outcome = "ok"
  /\ \E r \in Constructed \ o_relationships : edge2[r] = lastCall.a /\ edge1[r] # lastCall.a
  /\ lastCall.a \notin o_concepts

\* C3: removeAllConcepts is all-or-nothing.  If a member is bound by a
\* resident relationship it fails with Bound and concepts and relationships are
\* as before; otherwise concepts becomes empty and relationships is unchanged.
C3_RemoveAllConcepts ==
  [][lastCall'.op = "removeAllConcepts" =>
       IF \E n \in o_concepts : Referenced(n)
         THEN lastCall'.outcome = "Bound" /\ UNCHANGED ovars
         ELSE /\ lastCall'.outcome = "ok"
              /\ o_concepts' = {}
              /\ UNCHANGED <<edge1, edge2, o_relationships>>]_vars

\* C3 witness: removeAllConcepts has been refused on an Ontology that holds
\* a bound and an unbound concept.
C3_Witness ==
  /\ lastCall.op = "removeAllConcepts" /\ lastCall.outcome = "Bound"
  /\ \E n \in o_concepts : Referenced(n)
  /\ \E n \in o_concepts : ~Referenced(n)

\* C4: addRelationship(e) for e not resident fails with NotClosed when an
\* edge of e is a concrete concept that is not a member, and changes nothing;
\* for a resident e it fails with AlreadyExists and changes nothing.
C4_AddRelationship ==
  [][\A e \in Relationships :
       (lastCall'.op = "addRelationship" /\ lastCall'.a = e) =>
          /\ (e \notin o_relationships
              /\ \/ (IsConcrete(edge1[e]) /\ edge1[e] \notin o_concepts)
                 \/ (IsConcrete(edge2[e]) /\ edge2[e] \notin o_concepts))
             => (lastCall'.outcome = "NotClosed" /\ UNCHANGED ovars)
          /\ e \in o_relationships
             => (lastCall'.outcome = "AlreadyExists" /\ UNCHANGED ovars)]_vars

\* C4 witness: addRelationship has been refused as not closed for a
\* relationship one of whose edges is a member and the other is not.
C4_Witness ==
  /\ lastCall.op = "addRelationship" /\ lastCall.outcome = "NotClosed"
  /\ \E e \in Constructed :
       /\ lastCall.a = e
       /\ edge1[e] \in o_concepts
       /\ IsConcrete(edge2[e]) /\ edge2[e] \notin o_concepts

\* C5: class edges are exempt from the closure test of addRelationship.  A
\* relationship that is not resident, has an edge that is a Concept class, and
\* whose concrete edges are all members, is accepted; with two class edges it
\* is accepted by any Ontology, an empty one included.
C5_ClassEdgesExempt ==
  [][\A e \in Relationships :
       (/\ lastCall'.op = "addRelationship" /\ lastCall'.a = e
        /\ e \notin o_relationships
        /\ edge1[e] \in ConceptClasses \/ edge2[e] \in ConceptClasses
        /\ IsConcrete(edge1[e]) => edge1[e] \in o_concepts
        /\ IsConcrete(edge2[e]) => edge2[e] \in o_concepts)
       => (lastCall'.outcome = "ok" /\ o_relationships' = o_relationships \cup {e})]_vars


\* -------------------------------------------------------------- Blackboard
\* A Relationship the Blackboard creates for itself: Relationship(name, edge1, edge2).
\* Two such instances with equal edges are two members of a Python set, hence
\* the collections are bags of these records.
Rel(e1, e2) == [edge1 |-> e1, edge2 |-> e2]

\* The operation of the Blackboard that was called and how it ended.
BCall(op, outcome) == Call(op, None, None, outcome)

One(x) == SetToBag({x})

\* The instances held in a collection whose edge2 is v / whose edge1 is v.
WithEdge2(B, v) == {x \in BagToSet(B) : x.edge2 = v}
WithEdge1(B, v) == {x \in BagToSet(B) : x.edge1 = v}

\* The bag B restricted to the elements outside S (every instance in S removed).
Without(B, S) == [x \in BagToSet(B) \ S |-> B[x]]

\* The bag B restricted to the elements in S.
Only(B, S) == [x \in BagToSet(B) \cap S |-> B[x]]

\* agent.signal(self, message): the Blackboard signals the agent at edge1 of a
\* Relationship it has just created, with that Relationship as the message.
Signal(name, x) ==
  [to |-> x.edge1, source |-> TheBlackboard,
   message |-> [name |-> name, edge1 |-> x.edge1, edge2 |-> x.edge2]]

\* SignalsFor signaling once for instances with equal edges.
SignalsFor_oncePerPair(name, B) == SetToBag({Signal(name, x) : x \in BagToSet(B)})

\* One signal of that name for every instance held in the bag B.
SignalsFor(name, B) ==
  [s \in {Signal(name, x) : x \in BagToSet(B)} |->
     B[Rel(s.message.edge1, s.message.edge2)]]

RECURSIVE Copies(_, _)
Copies(S, B) ==
  IF S = {} THEN 0
  ELSE LET x == CHOOSE y \in S : TRUE IN CopiesIn(x, B) + Copies(S \ {x}, B)

\* The loop of publishConcept over _classSubscriptions: one new subscription
\* instance for every class subscription instance whose class the concept is
\* an instance of.
ManifestSubscriptions(concept) ==
  LET matching == {cs \in BagToSet(b_classSubscriptions) : isinstance(concept, cs.edge2)}
      agents == {cs.edge1 : cs \in matching}
  IN [s \in {Rel(a, concept) : a \in agents} |->
        Copies({cs \in matching : cs.edge1 = s.edge1}, b_classSubscriptions)]

\* The same loop with "type(concept) == class" for isinstance.
ManifestSubscriptions_exactClass(concept) ==
  LET matching == {cs \in BagToSet(b_classSubscriptions) : ClassOf(concept) = cs.edge2}
      agents == {cs.edge1 : cs \in matching}
  IN [s \in {Rel(a, concept) : a \in agents} |->
        Copies({cs \in matching : cs.edge1 = s.edge1}, b_classSubscriptions)]

\* publishConcept without the test that the concept is not yet published.
publishConcept_republish(agent, concept) ==
  /\ IF ~isinstance(agent, "Agent")
       THEN /\ UNCHANGED <<b_concepts, b_publications, b_conceptSubscriptions>>
            /\ delivered' = <<>>
            /\ observed' = <<>>
            /\ lastCall' = BCall("publishConcept", "NotWellFormed")
       ELSE IF ~isinstance(concept, "Concept")
         THEN /\ UNCHANGED <<b_concepts, b_publications, b_conceptSubscriptions>>
              /\ delivered' = <<>>
              /\ observed' = <<>>
              /\ lastCall' = BCall("publishConcept", "NotWellFormed")
         ELSE IF FALSE
           THEN /\ UNCHANGED <<b_concepts, b_publications, b_conceptSubscriptions>>
                /\ delivered' = <<>>
                /\ observed' = <<>>
                /\ lastCall' = BCall("publishConcept", "AlreadyExists")
           ELSE /\ b_concepts' = b_concepts \cup {concept}
                /\ b_publications' = b_publications (+) One(Rel(agent, concept))
                /\ b_conceptSubscriptions' =
                     b_conceptSubscriptions (+) ManifestSubscriptions(concept)
                /\ delivered' =
                     <<One(Signal("Published Concept", Rel(agent, concept)))>>
                       \o Round(SignalsFor("Subscribed To Concept Class Instance",
                                            ManifestSubscriptions(concept)))
                /\ observed' =
                     [i \in DOMAIN delivered' |->
                        [Observed EXCEPT !.concepts = b_concepts',
                                         !.publications = b_publications',
                                         !.loop = IF i = 1 THEN "none" ELSE "add"]]
                /\ lastCall' = BCall("publishConcept", "ok")
  /\ UNCHANGED b_classSubscriptions
  /\ UNCHANGED <<ovars, pvars>>

\* publishConcept matching class subscriptions by the exact class of the concept.
publishConcept_exactClass(agent, concept) ==
  /\ IF ~isinstance(agent, "Agent")
       THEN /\ UNCHANGED <<b_concepts, b_publications, b_conceptSubscriptions>>
            /\ delivered' = <<>>
            /\ observed' = <<>>
            /\ lastCall' = BCall("publishConcept", "NotWellFormed")
       ELSE IF ~isinstance(concept, "Concept")
         THEN /\ UNCHANGED <<b_concepts, b_publications, b_conceptSubscriptions>>
              /\ delivered' = <<>>
              /\ observed' = <<>>
              /\ lastCall' = BCall("publishConcept", "NotWellFormed")
         ELSE IF concept \in b_concepts
           THEN /\ UNCHANGED <<b_concepts, b_publications, b_conceptSubscriptions>>
                /\ delivered' = <<>>
                /\ observed' = <<>>
                /\ lastCall' = BCall("publishConcept", "AlreadyExists")
           ELSE /\ b_concepts' = b_concepts \cup {concept}
                /\ b_publications' = b_publications (+) One(Rel(agent, concept))
                /\ b_conceptSubscriptions' =
                     b_conceptSubscriptions (+) ManifestSubscriptions_exactClass(concept)
                /\ delivered' =
                     <<One(Signal("Published Concept", Rel(agent, concept)))>>
                       \o Round(SignalsFor("Subscribed To Concept Class Instance",
                                            ManifestSubscriptions_exactClass(concept)))
                /\ observed' =
                     [i \in DOMAIN delivered' |->
                        [Observed EXCEPT !.concepts = b_concepts',
                                         !.publications = b_publications',
                                         !.loop = IF i = 1 THEN "none" ELSE "add"]]
                /\ lastCall' = BCall("publishConcept", "ok")
  /\ UNCHANGED b_classSubscriptions
  /\ UNCHANGED <<ovars, pvars>>

\* publishConcept using up the class subscriptions it makes manifest.
publishConcept_consumeClassSubscriptions(agent, concept) ==
  /\ IF ~isinstance(agent, "Agent")
       THEN /\ UNCHANGED <<b_concepts, b_publications, b_conceptSubscriptions>>
            /\ delivered' = <<>>
            /\ observed' = <<>>
            /\ lastCall' = BCall("publishConcept", "NotWellFormed")
       ELSE IF ~isinstance(concept, "Concept")
         THEN /\ UNCHANGED <<b_concepts, b_publications, b_conceptSubscriptions>>
              /\ delivered' = <<>>
              /\ observed' = <<>>
              /\ lastCall' = BCall("publishConcept", "NotWellFormed")
         ELSE IF concept \in b_concepts
           THEN /\ UNCHANGED <<b_concepts, b_publications, b_conceptSubscriptions>>
                /\ delivered' = <<>>
                /\ observed' = <<>>
                /\ lastCall' = BCall("publishConcept", "AlreadyExists")
           ELSE /\ b_concepts' = b_concepts \cup {concept}
                /\ b_publications' = b_publications (+) One(Rel(agent, concept))
                /\ b_conceptSubscriptions' =
                     b_conceptSubscriptions (+) ManifestSubscriptions(concept)
                /\ delivered' =
                     <<One(Signal("Published Concept", Rel(agent, concept)))>>
                       \o Round(SignalsFor("Subscribed To Concept Class Instance",
                                            ManifestSubscriptions(concept)))
                /\ observed' =
                     [i \in DOMAIN delivered' |->
                        [Observed EXCEPT !.concepts = b_concepts',
                                         !.publications = b_publications',
                                         !.loop = IF i = 1 THEN "none" ELSE "add"]]
                /\ lastCall' = BCall("publishConcept", "ok")
  /\ b_classSubscriptions' =
       IF isinstance(agent, "Agent") /\ isinstance(concept, "Concept")
          /\ concept \notin b_concepts
         THEN Without(b_classSubscriptions,
                      {cs \in BagToSet(b_classSubscriptions) : isinstance(concept, cs.edge2)})
         ELSE b_classSubscriptions
  /\ UNCHANGED <<ovars, pvars>>

\* Blackboard.publishConcept
publishConcept(agent, concept) ==
  /\ IF ~isinstance(agent, "Agent")
       THEN /\ UNCHANGED <<b_concepts, b_publications, b_conceptSubscriptions>>
            /\ delivered' = <<>>
            /\ observed' = <<>>
            /\ lastCall' = BCall("publishConcept", "NotWellFormed")
       ELSE IF ~isinstance(concept, "Concept")
         THEN /\ UNCHANGED <<b_concepts, b_publications, b_conceptSubscriptions>>
              /\ delivered' = <<>>
              /\ observed' = <<>>
              /\ lastCall' = BCall("publishConcept", "NotWellFormed")
         ELSE IF concept \in b_concepts
           THEN /\ UNCHANGED <<b_concepts, b_publications, b_conceptSubscriptions>>
                /\ delivered' = <<>>
                /\ observed' = <<>>
                /\ lastCall' = BCall("publishConcept", "AlreadyExists")
           ELSE /\ b_concepts' = b_concepts \cup {concept}
                /\ b_publications' = b_publications (+) One(Rel(agent, concept))
                /\ b_conceptSubscriptions' =
                     b_conceptSubscriptions (+) ManifestSubscriptions(concept)
                /\ delivered' =
                     <<One(Signal("Published Concept", Rel(agent, concept)))>>
                       \o Round(SignalsFor("Subscribed To Concept Class Instance",
                                            ManifestSubscriptions(concept)))
                /\ observed' =
                     [i \in DOMAIN delivered' |->
                        [Observed EXCEPT !.concepts = b_concepts',
                                         !.publications = b_publications',
                                         !.loop = IF i = 1 THEN "none" ELSE "add"]]
                /\ lastCall' = BCall("publishConcept", "ok")
  /\ UNCHANGED b_classSubscriptions
  /\ UNCHANGED <<ovars, pvars>>

NoPublication == Rel(None, None)

\* unpublish leaving the subscriptions to the concept in place.
unpublish_keepSubscriptions(st, concept, publication) ==
  IF publication = NoPublication
    THEN [st EXCEPT !.concepts = @ \ {concept}, !.outcome = "AttributeError"]
    ELSE [st EXCEPT !.concepts = @ \ {concept},
                    !.publications = @ (-) One(publication),
                    !.delivered = @ \o <<One(Signal("Unpublished Concept", publication))>>,
                    !.observed = @ \o <<Seen(st.concepts \ {concept},
                                              st.publications (-) One(publication),
                                              st.conceptSubscriptions, "none")>>]

\* unpublish signaling the subscribers it removes before the publisher.
unpublish_subscribersFirst(st, concept, publication) ==
  IF publication = NoPublication
    THEN [st EXCEPT !.concepts = @ \ {concept}, !.outcome = "AttributeError"]
    ELSE [st EXCEPT !.concepts = @ \ {concept},
                    !.publications = @ (-) One(publication),
                    !.conceptSubscriptions = Without(@, WithEdge2(@, concept)),
                    !.delivered =
                       @ \o Round(SignalsFor("Unsubscribed From Concept",
                                             Only(st.conceptSubscriptions,
                                                  WithEdge2(st.conceptSubscriptions, concept))))
                         \o <<One(Signal("Unpublished Concept", publication))>>,
                    !.observed =
                       @ \o (IF WithEdge2(st.conceptSubscriptions, concept) = {} THEN <<>>
                              ELSE <<Seen(st.concepts \ {concept},
                                          st.publications (-) One(publication),
                                          st.conceptSubscriptions, "remove")>>)
                         \o <<Seen(st.concepts \ {concept},
                                    st.publications (-) One(publication),
                                    Without(st.conceptSubscriptions,
                                            WithEdge2(st.conceptSubscriptions, concept)),
                                    "none")>>]

\* The first half of the inner function unpublish of
\* Blackboard.unpublishConcept, applied to a published concept, as a function
\* of the collections: the concept and the publication the scan finds are
\* removed and the publisher is signaled.  When the scan finds no publication,
\* publicationToRemove is None and the attribute access raises after the
\* concept has left _concepts.
unpublish_publication(st, concept, publication) ==
  IF publication = NoPublication
    THEN [st EXCEPT !.concepts = @ \ {concept}, !.outcome = "AttributeError"]
    ELSE [st EXCEPT !.concepts = @ \ {concept},
                    !.publications = @ (-) One(publication),
                    !.delivered = @ \o <<One(Signal("Unpublished Concept", publication))>>,
                    !.observed = @ \o <<Seen(st.concepts \ {concept},
                                              st.publications (-) One(publication),
                                              st.conceptSubscriptions, "none")>>]

\* The second half: every subscription to the concept is removed and its
\* agent signaled.
unpublish_subscriptions(st, concept) ==
  [st EXCEPT !.conceptSubscriptions = Without(@, WithEdge2(@, concept)),
             !.delivered =
                @ \o Round(SignalsFor("Unsubscribed From Concept",
                                      Only(st.conceptSubscriptions,
                                           WithEdge2(st.conceptSubscriptions, concept)))),
             !.observed =
                @ \o (IF WithEdge2(st.conceptSubscriptions, concept) = {} THEN <<>>
                      ELSE <<Seen(st.concepts, st.publications,
                                  st.conceptSubscriptions, "remove")>>)]

\* The inner function unpublish of Blackboard.unpublishConcept applied to a
\* published concept.
unpublish(st, concept, publication) ==
  IF publication = NoPublication
    THEN unpublish_publication(st, concept, publication)
    ELSE unpublish_subscriptions(unpublish_publication(st, concept, publication), concept)

\* The publications the scan 'for publication in self._publications' can stop at.
PublicationsFound(publications, concept) ==
  IF WithEdge2(publications, concept) = {} THEN {NoPublication}
  ELSE WithEdge2(publications, concept)

BlackboardState ==
  [concepts |-> b_concepts, publications |-> b_publications,
   conceptSubscriptions |-> b_conceptSubscriptions, delivered |-> <<>>, observed |-> <<>>,
   outcome |-> "ok"]

SetBlackboard(st) ==
  /\ b_concepts' = st.concepts
  /\ b_publications' = st.publications
  /\ b_conceptSubscriptions' = st.conceptSubscriptions

\* The loop of unpublishConcept leaving after the first concept.
unpublishEach_first(st, order, found) ==
  IF order = <<>> THEN st
  ELSE unpublish(st, Head(order), found[Head(order)])

\* unpublish applied to the concepts of a sequence, stopping at the first
\* raise; a concept that is no longer published raises 'Concept does not exist'.
RECURSIVE unpublishEach(_, _, _)
unpublishEach(st, order, found) ==
  IF order = <<>> \/ st.outcome # "ok" THEN st
  ELSE IF Head(order) \notin st.concepts THEN [st EXCEPT !.outcome = "NotFound"]
  ELSE unpublishEach(unpublish(st, Head(order), found[Head(order)]), Tail(order), found)

\* The orders in which a loop can visit the members of a set.
Orders(S) == {o \in [1..Cardinality(S) -> S] : \A i, j \in DOMAIN o : i # j => o[i] # o[j]}

\* Blackboard.unpublishConcept
unpublishConcept(concept) ==
  /\ IF concept = None
       THEN \E order \in Orders(b_concepts) :
            \E found \in [b_concepts -> BagToSet(b_publications) \cup {NoPublication}] :
              /\ \A c \in b_concepts : found[c] \in PublicationsFound(b_publications, c)
              /\ LET st == unpublishEach(BlackboardState, order, found)
                 IN /\ SetBlackboard(st)
                    /\ delivered' = st.delivered
                    /\ observed' = st.observed
                    /\ lastCall' = BCall("unpublishConcept", st.outcome)
       ELSE IF ~isinstance(concept, "Concept")
         THEN /\ UNCHANGED <<b_concepts, b_publications, b_conceptSubscriptions>>
              /\ delivered' = <<>>
              /\ observed' = <<>>
              /\ lastCall' = BCall("unpublishConcept", "NotWellFormed")
         ELSE IF concept \notin b_concepts
           THEN /\ UNCHANGED <<b_concepts, b_publications, b_conceptSubscriptions>>
                /\ delivered' = <<>>
                /\ observed' = <<>>
                /\ lastCall' = BCall("unpublishConcept", "NotFound")
           ELSE \E publication \in PublicationsFound(b_publications, concept) :
                  LET st == unpublish(BlackboardState, concept, publication)
                  IN /\ SetBlackboard(st)
                     /\ delivered' = st.delivered
                     /\ observed' = st.observed
                     /\ lastCall' = BCall("unpublishConcept", st.outcome)
  /\ UNCHANGED b_classSubscriptions
  /\ UNCHANGED <<ovars, pvars>>

\* Blackboard.unpublishConcept with no concept, on a Blackboard where the
\* publisher of the concept at is an agent whose signal, the first time it is
\* told that a concept is unpublished, calls unpublishConcept(other) for a
\* concept other that is still published.  The loop runs over the copy of
\* _concepts it made at the start: the concept at is the first it unpublishes
\* of that publisher, the nested call runs inside the signal call of the first
\* half of unpublish(at), and the loop later comes to other.
unpublishConceptReentrant(at, other) ==
  /\ at \in b_concepts
  /\ other \in b_concepts
  /\ at # other
  /\ \E order \in Orders(b_concepts) :
     \E found \in [b_concepts -> BagToSet(b_publications) \cup {NoPublication}] :
     \E k \in DOMAIN order :
       /\ \A c \in b_concepts : found[c] \in PublicationsFound(b_publications, c)
       /\ order[k] = at
       /\ \A i \in 1..(k - 1) : order[i] # other /\ found[order[i]].edge1 # found[at].edge1
       /\ LET before == unpublishEach(BlackboardState, SubSeq(order, 1, k - 1), found)
              signaled == unpublish_publication(before, at, found[at])
              nested == unpublish(signaled, other, found[other])
              after == IF nested.outcome # "ok" THEN nested
                       ELSE unpublish_subscriptions(nested, at)
              st == unpublishEach(after, SubSeq(order, k + 1, Len(order)), found)
          IN /\ SetBlackboard(st)
             /\ delivered' = st.delivered
             /\ observed' = st.observed
             /\ lastCall' = Call("unpublishConcept", at, other, st.outcome)
  /\ UNCHANGED b_classSubscriptions
  /\ UNCHANGED <<ovars, pvars>>

Result(outcome, agents) == [outcome |-> outcome, agents |-> agents]

\* Blackboard.publisher: the outcome and the agents the scan can return.
publisher(concept) ==
  IF ~isinstance(concept, "Concept") THEN Result("NotWellFormed", {})
  ELSE IF concept \notin b_concepts THEN Result("NotFound", {})
  ELSE IF WithEdge2(b_publications, concept) = {} THEN Result("NotFound", {})
  ELSE Result("ok", {p.edge1 : p \in WithEdge2(b_publications, concept)})

\* Blackboard.subscribers: the outcome and the set of agents returned.
subscribers(concept) ==
  IF concept = None
    THEN Result("ok", {s.edge1 : s \in BagToSet(b_conceptSubscriptions)})
  ELSE IF ~isinstance(concept, "Concept") THEN Result("NotWellFormed", {})
  ELSE IF concept \notin b_concepts THEN Result("NotFound", {})
  ELSE Result("ok", {s.edge1 : s \in WithEdge2(b_conceptSubscriptions, concept)})

\* classSubscribers taking the subscribers to the subclasses as well.
classSubscribers_subclasses(conceptClass) ==
  IF conceptClass = None
    THEN Result("ok", {cs.edge1 : cs \in BagToSet(b_classSubscriptions)})
  ELSE IF conceptClass \notin Classes THEN Result("NotWellFormed", {})
  ELSE IF ~issubclass(conceptClass, "Concept") THEN Result("None", {})
  ELSE IF {cs \in BagToSet(b_classSubscriptions) : issubclass(cs.edge2, conceptClass)} = {}
    THEN Result("NotFound", {})
  ELSE Result("ok", {cs.edge1 : cs \in {x \in BagToSet(b_classSubscriptions) :
                                           issubclass(x.edge2, conceptClass)}})

\* Blackboard.classSubscribers: the outcome and the set of agents returned.
\* issubclass of a value that is not a class raises TypeError; for a class that
\* does not derive from Concept the method ends without a return statement,
\* the outcome "None".
classSubscribers(conceptClass) ==
  IF conceptClass = None
    THEN Result("ok", {cs.edge1 : cs \in BagToSet(b_classSubscriptions)})
  ELSE IF conceptClass \notin Classes THEN Result("NotWellFormed", {})
  ELSE IF ~issubclass(conceptClass, "Concept") THEN Result("None", {})
  ELSE IF WithEdge2(b_classSubscriptions, conceptClass) = {} THEN Result("NotFound", {})
  ELSE Result("ok", {cs.edge1 : cs \in WithEdge2(b_classSubscriptions, conceptClass)})

\* subscribeToConcept without the scan for a subscription of the agent to the concept.
subscribeToConcept_resubscribe(agent, concept) ==
  /\ IF ~isinstance(agent, "Agent")
       THEN /\ UNCHANGED b_conceptSubscriptions
            /\ delivered' = <<>>
            /\ observed' = <<>>
            /\ lastCall' = BCall("subscribeToConcept", "NotWellFormed")
       ELSE IF ~isinstance(concept, "Concept")
         THEN /\ UNCHANGED b_conceptSubscriptions
              /\ delivered' = <<>>
              /\ observed' = <<>>
              /\ lastCall' = BCall("subscribeToConcept", "NotWellFormed")
         ELSE IF concept \notin b_concepts
           THEN /\ UNCHANGED b_conceptSubscriptions
                /\ delivered' = <<>>
                /\ observed' = <<>>
                /\ lastCall' = BCall("subscribeToConcept", "NotFound")
           ELSE IF FALSE
             THEN /\ UNCHANGED b_conceptSubscriptions
                  /\ delivered' = <<>>
                  /\ observed' = <<>>
                  /\ lastCall' = BCall("subscribeToConcept", "AlreadyExists")
             ELSE /\ b_conceptSubscriptions' =
                       b_conceptSubscriptions (+) One(Rel(agent, concept))
                  /\ delivered' = Round(One(Signal("Subscribed To Concept", Rel(agent, concept))))
                  /\ observed' = <<[Observed EXCEPT !.conceptSubscriptions = @ (+) One(Rel(agent, concept))]>>
                  /\ lastCall' = BCall("subscribeToConcept", "ok")
  /\ UNCHANGED <<b_concepts, b_publications, b_classSubscriptions>>
  /\ UNCHANGED <<ovars, pvars>>

\* Blackboard.subscribeToConcept
subscribeToConcept(agent, concept) ==
  /\ IF ~isinstance(agent, "Agent")
       THEN /\ UNCHANGED b_conceptSubscriptions
            /\ delivered' = <<>>
            /\ observed' = <<>>
            /\ lastCall' = BCall("subscribeToConcept", "NotWellFormed")
       ELSE IF ~isinstance(concept, "Concept")
         THEN /\ UNCHANGED b_conceptSubscriptions
              /\ delivered' = <<>>
              /\ observed' = <<>>
              /\ lastCall' = BCall("subscribeToConcept", "NotWellFormed")
         ELSE IF concept \notin b_concepts
           THEN /\ UNCHANGED b_conceptSubscriptions
                /\ delivered' = <<>>
                /\ observed' = <<>>
                /\ lastCall' = BCall("subscribeToConcept", "NotFound")
           ELSE IF Rel(agent, concept) \in BagToSet(b_conceptSubscriptions)
             THEN /\ UNCHANGED b_conceptSubscriptions
                  /\ delivered' = <<>>
                  /\ observed' = <<>>
                  /\ lastCall' = BCall("subscribeToConcept", "AlreadyExists")
             ELSE /\ b_conceptSubscriptions' =
                       b_conceptSubscriptions (+) One(Rel(agent, concept))
                  /\ delivered' = Round(One(Signal("Subscribed To Concept", Rel(agent, concept))))
                  /\ observed' = <<[Observed EXCEPT !.conceptSubscriptions = @ (+) One(Rel(agent, concept))]>>
                  /\ lastCall' = BCall("subscribeToConcept", "ok")
  /\ UNCHANGED <<b_concepts, b_publications, b_classSubscriptions>>
  /\ UNCHANGED <<ovars, pvars>>

\* A scan with 'break' that never finds a match.
FirstOf_noMatch(B, x) == EmptyBag

\* The subscription instances a scan with 'break' can stop at: the first one
\* that matches, if any (instances with equal edges are told apart by nothing
\* the Blackboard keeps).
FirstOf(B, x) == IF x \in BagToSet(B) THEN One(x) ELSE EmptyBag

\* unsubscribeFromConcept raising when the agent holds no subscription to the
\* concept.
unsubscribeFromConcept_notSubscribed(agent, concept) ==
  /\ IF concept = None
       THEN IF agent = None
              THEN /\ b_conceptSubscriptions' = EmptyBag
                   /\ delivered' = Round(SignalsFor("Unsubscribed From Concept",
                                                  b_conceptSubscriptions))
                   /\ observed' = Each(delivered', Observed)
                   /\ lastCall' = BCall("unsubscribeFromConcept", "ok")
              ELSE IF isinstance(agent, "Agent")
                THEN /\ b_conceptSubscriptions' =
                          Without(b_conceptSubscriptions,
                                  WithEdge1(b_conceptSubscriptions, agent))
                     /\ delivered' = Round(SignalsFor("Unsubscribed from Concept",
                                                    Only(b_conceptSubscriptions,
                                                         WithEdge1(b_conceptSubscriptions, agent))))
                     /\ observed' = Each(delivered', Observed)
                     /\ lastCall' = BCall("unsubscribeFromConcept", "ok")
                ELSE /\ UNCHANGED b_conceptSubscriptions
                     /\ delivered' = <<>>
                     /\ observed' = <<>>
                     /\ lastCall' = BCall("unsubscribeFromConcept", "NotWellFormed")
       ELSE IF ~isinstance(concept, "Concept")
         THEN /\ UNCHANGED b_conceptSubscriptions
              /\ delivered' = <<>>
              /\ observed' = <<>>
              /\ lastCall' = BCall("unsubscribeFromConcept", "NotWellFormed")
         ELSE IF concept \notin b_concepts
           THEN /\ UNCHANGED b_conceptSubscriptions
                /\ delivered' = <<>>
                /\ observed' = <<>>
                /\ lastCall' = BCall("unsubscribeFromConcept", "NotFound")
           ELSE IF agent = None
             THEN /\ b_conceptSubscriptions' =
                       Without(b_conceptSubscriptions,
                               WithEdge2(b_conceptSubscriptions, concept))
                  /\ delivered' = Round(SignalsFor("Unsubscribed from Concept",
                                                 Only(b_conceptSubscriptions,
                                                      WithEdge2(b_conceptSubscriptions, concept))))
                  /\ observed' = Each(delivered', Observed)
                  /\ lastCall' = BCall("unsubscribeFromConcept", "ok")
             ELSE IF isinstance(agent, "Agent")
               \* the scan stops (break) at the first matching instance
               THEN /\ b_conceptSubscriptions' =
                         b_conceptSubscriptions
                           (-) FirstOf(b_conceptSubscriptions, Rel(agent, concept))
                    /\ delivered' = Round(SignalsFor("Unsubscribed From Concept",
                                                   FirstOf(b_conceptSubscriptions,
                                                           Rel(agent, concept))))
                    /\ observed' = Each(delivered', Observed)
                    /\ lastCall' = BCall("unsubscribeFromConcept",
                                       IF FirstOf(b_conceptSubscriptions,
                                                  Rel(agent, concept)) = EmptyBag
                                         THEN "NotFound" ELSE "ok")
               ELSE /\ UNCHANGED b_conceptSubscriptions
                    /\ delivered' = <<>>
                    /\ observed' = <<>>
                    /\ lastCall' = BCall("unsubscribeFromConcept", "NotWellFormed")
  /\ UNCHANGED <<b_concepts, b_publications, b_classSubscriptions>>
  /\ UNCHANGED <<ovars, pvars>>

\* Blackboard.unsubscribeFromConcept: every selected instance is signaled in
\* the scan and removed after it.
unsubscribeFromConcept(agent, concept) ==
  /\ IF concept = None
       THEN IF agent = None
              THEN /\ b_conceptSubscriptions' = EmptyBag
                   /\ delivered' = Round(SignalsFor("Unsubscribed From Concept",
                                                  b_conceptSubscriptions))
                   /\ observed' = Each(delivered', Observed)
                   /\ lastCall' = BCall("unsubscribeFromConcept", "ok")
              ELSE IF isinstance(agent, "Agent")
                THEN /\ b_conceptSubscriptions' =
                          Without(b_conceptSubscriptions,
                                  WithEdge1(b_conceptSubscriptions, agent))
                     /\ delivered' = Round(SignalsFor("Unsubscribed from Concept",
                                                    Only(b_conceptSubscriptions,
                                                         WithEdge1(b_conceptSubscriptions, agent))))
                     /\ observed' = Each(delivered', Observed)
                     /\ lastCall' = BCall("unsubscribeFromConcept", "ok")
                ELSE /\ UNCHANGED b_conceptSubscriptions
                     /\ delivered' = <<>>
                     /\ observed' = <<>>
                     /\ lastCall' = BCall("unsubscribeFromConcept", "NotWellFormed")
       ELSE IF ~isinstance(concept, "Concept")
         THEN /\ UNCHANGED b_conceptSubscriptions
              /\ delivered' = <<>>
              /\ observed' = <<>>
              /\ lastCall' = BCall("unsubscribeFromConcept", "NotWellFormed")
         ELSE IF concept \notin b_concepts
           THEN /\ UNCHANGED b_conceptSubscriptions
                /\ delivered' = <<>>
                /\ observed' = <<>>
                /\ lastCall' = BCall("unsubscribeFromConcept", "NotFound")
           ELSE IF agent = None
             THEN /\ b_conceptSubscriptions' =
                       Without(b_conceptSubscriptions,
                               WithEdge2(b_conceptSubscriptions, concept))
                  /\ delivered' = Round(SignalsFor("Unsubscribed from Concept",
                                                 Only(b_conceptSubscriptions,
                                                      WithEdge2(b_conceptSubscriptions, concept))))
                  /\ observed' = Each(delivered', Observed)
                  /\ lastCall' = BCall("unsubscribeFromConcept", "ok")
             ELSE IF isinstance(agent, "Agent")
               \* the scan stops (break) at the first matching instance
               THEN /\ b_conceptSubscriptions' =
                         b_conceptSubscriptions
                           (-) FirstOf(b_conceptSubscriptions, Rel(agent, concept))
                    /\ delivered' = Round(SignalsFor("Unsubscribed From Concept",
                                                   FirstOf(b_conceptSubscriptions,
                                                           Rel(agent, concept))))
                    /\ observed' = Each(delivered', Observed)
                    /\ lastCall' = BCall("unsubscribeFromConcept", "ok")
               ELSE /\ UNCHANGED b_conceptSubscriptions
                    /\ delivered' = <<>>
                    /\ observed' = <<>>
                    /\ lastCall' = BCall("unsubscribeFromConcept", "NotWellFormed")
  /\ UNCHANGED <<b_concepts, b_publications, b_classSubscriptions>>
  /\ UNCHANGED <<ovars, pvars>>

\* subscribeToConceptClass also subscribing the agent to the published instances.
subscribeToConceptClass_retroactive(agent, conceptClass) ==
  /\ IF ~isinstance(agent, "Agent")
       THEN /\ UNCHANGED b_classSubscriptions
            /\ delivered' = <<>>
            /\ observed' = <<>>
            /\ lastCall' = BCall("subscribeToConceptClass", "NotWellFormed")
       ELSE IF conceptClass \notin Classes
         \* issubclass raises TypeError
         THEN /\ UNCHANGED b_classSubscriptions
              /\ delivered' = <<>>
              /\ observed' = <<>>
              /\ lastCall' = BCall("subscribeToConceptClass", "NotWellFormed")
         ELSE IF ~issubclass(conceptClass, "Concept")
           \* the 'if' has no else branch: the call returns normally
           THEN /\ UNCHANGED b_classSubscriptions
                /\ delivered' = <<>>
                /\ observed' = <<>>
                /\ lastCall' = BCall("subscribeToConceptClass", "ok")
           ELSE IF Rel(agent, conceptClass) \in BagToSet(b_classSubscriptions)
             THEN /\ UNCHANGED b_classSubscriptions
                  /\ delivered' = <<>>
                  /\ observed' = <<>>
                  /\ lastCall' = BCall("subscribeToConceptClass", "AlreadyExists")
             ELSE /\ b_classSubscriptions' =
                       b_classSubscriptions (+) One(Rel(agent, conceptClass))
                  /\ delivered' = Round(One(Signal("Subscribed To Concept Class",
                                                 Rel(agent, conceptClass))))
                  /\ observed' = <<[Observed EXCEPT !.classSubscriptions = @ (+) One(Rel(agent, conceptClass))]>>
                  /\ lastCall' = BCall("subscribeToConceptClass", "ok")
  /\ b_conceptSubscriptions' =
       IF lastCall'.outcome = "ok" /\ b_classSubscriptions' # b_classSubscriptions
         THEN b_conceptSubscriptions (+)
                SetToBag({Rel(agent, c) : c \in {n \in b_concepts : isinstance(n, conceptClass)}})
         ELSE b_conceptSubscriptions
  /\ UNCHANGED <<b_concepts, b_publications>>
  /\ UNCHANGED <<ovars, pvars>>

\* subscribeToConceptClass without the scan for a subscription of the agent to the class.
subscribeToConceptClass_resubscribe(agent, conceptClass) ==
  /\ IF ~isinstance(agent, "Agent")
       THEN /\ UNCHANGED b_classSubscriptions
            /\ delivered' = <<>>
            /\ observed' = <<>>
            /\ lastCall' = BCall("subscribeToConceptClass", "NotWellFormed")
       ELSE IF conceptClass \notin Classes
         \* issubclass raises TypeError
         THEN /\ UNCHANGED b_classSubscriptions
              /\ delivered' = <<>>
              /\ observed' = <<>>
              /\ lastCall' = BCall("subscribeToConceptClass", "NotWellFormed")
         ELSE IF ~issubclass(conceptClass, "Concept")
           \* the 'if' has no else branch: the call returns normally
           THEN /\ UNCHANGED b_classSubscriptions
                /\ delivered' = <<>>
                /\ observed' = <<>>
                /\ lastCall' = BCall("subscribeToConceptClass", "ok")
           ELSE IF FALSE
             THEN /\ UNCHANGED b_classSubscriptions
                  /\ delivered' = <<>>
                  /\ observed' = <<>>
                  /\ lastCall' = BCall("subscribeToConceptClass", "AlreadyExists")
             ELSE /\ b_classSubscriptions' =
                       b_classSubscriptions (+) One(Rel(agent, conceptClass))
                  /\ delivered' = Round(One(Signal("Subscribed To Concept Class",
                                                 Rel(agent, conceptClass))))
                  /\ observed' = <<[Observed EXCEPT !.classSubscriptions = @ (+) One(Rel(agent, conceptClass))]>>
                  /\ lastCall' = BCall("subscribeToConceptClass", "ok")
  /\ UNCHANGED <<b_concepts, b_publications, b_conceptSubscriptions>>
  /\ UNCHANGED <<ovars, pvars>>

\* Blackboard.subscribeToConceptClass
subscribeToConceptClass(agent, conceptClass) ==
  /\ IF ~isinstance(agent, "Agent")
       THEN /\ UNCHANGED b_classSubscriptions
            /\ delivered' = <<>>
            /\ observed' = <<>>
            /\ lastCall' = BCall("subscribeToConceptClass", "NotWellFormed")
       ELSE IF conceptClass \notin Classes
         \* issubclass raises TypeError
         THEN /\ UNCHANGED b_classSubscriptions
              /\ delivered' = <<>>
              /\ observed' = <<>>
              /\ lastCall' = BCall("subscribeToConceptClass", "NotWellFormed")
         ELSE IF ~issubclass(conceptClass, "Concept")
           \* the 'if' has no else branch: the call returns normally
           THEN /\ UNCHANGED b_classSubscriptions
                /\ delivered' = <<>>
                /\ observed' = <<>>
                /\ lastCall' = BCall("subscribeToConceptClass", "ok")
           ELSE IF Rel(agent, conceptClass) \in BagToSet(b_classSubscriptions)
             THEN /\ UNCHANGED b_classSubscriptions
                  /\ delivered' = <<>>
                  /\ observed' = <<>>
                  /\ lastCall' = BCall("subscribeToConceptClass", "AlreadyExists")
             ELSE /\ b_classSubscriptions' =
                       b_classSubscriptions (+) One(Rel(agent, conceptClass))
                  /\ delivered' = Round(One(Signal("Subscribed To Concept Class",
                                                 Rel(agent, conceptClass))))
                  /\ observed' = <<[Observed EXCEPT !.classSubscriptions = @ (+) One(Rel(agent, conceptClass))]>>
                  /\ lastCall' = BCall("subscribeToConceptClass", "ok")
  /\ UNCHANGED <<b_concepts, b_publications, b_conceptSubscriptions>>
  /\ UNCHANGED <<ovars, pvars>>

\* unsubscribeFromConceptClass removing also the subscriptions to concepts that
\* the removed class subscriptions had made manifest.
unsubscribeFromConceptClass_withdrawManifest(agent, conceptClass) ==
  /\ IF conceptClass = None
       THEN IF agent = None
              THEN /\ b_classSubscriptions' = EmptyBag
                   /\ delivered' = Round(SignalsFor("Unsubscribed From Concept Class",
                                                  b_classSubscriptions))
                   /\ observed' = Each(delivered', Observed)
                   /\ lastCall' = BCall("unsubscribeFromConceptClass", "ok")
              ELSE IF isinstance(agent, "Agent")
                THEN /\ b_classSubscriptions' =
                          Without(b_classSubscriptions, WithEdge1(b_classSubscriptions, agent))
                     /\ delivered' = Round(SignalsFor("Unsubscribed from Concept Class",
                                                    Only(b_classSubscriptions,
                                                         WithEdge1(b_classSubscriptions, agent))))
                     /\ observed' = Each(delivered', Observed)
                     /\ lastCall' = BCall("unsubscribeFromConceptClass", "ok")
                ELSE /\ UNCHANGED b_classSubscriptions
                     /\ delivered' = <<>>
                     /\ observed' = <<>>
                     /\ lastCall' = BCall("unsubscribeFromConceptClass", "NotWellFormed")
       ELSE IF conceptClass \notin Classes \/ ~issubclass(conceptClass, "Concept")
         THEN /\ UNCHANGED b_classSubscriptions
              /\ delivered' = <<>>
              /\ observed' = <<>>
              /\ lastCall' = BCall("unsubscribeFromConceptClass", "NotWellFormed")
         ELSE IF agent = None
           THEN /\ b_classSubscriptions' =
                     Without(b_classSubscriptions,
                             WithEdge2(b_classSubscriptions, conceptClass))
                /\ delivered' = Round(SignalsFor("Unsubscribed from concept class",
                                               Only(b_classSubscriptions,
                                                    WithEdge2(b_classSubscriptions, conceptClass))))
                /\ observed' = Each(delivered', Observed)
                /\ lastCall' = BCall("unsubscribeFromConceptClass", "ok")
           ELSE IF isinstance(agent, "Agent")
             THEN /\ b_classSubscriptions' =
                       b_classSubscriptions
                         (-) FirstOf(b_classSubscriptions, Rel(agent, conceptClass))
                  /\ delivered' = Round(SignalsFor("Unsubscribed from concept class",
                                                 FirstOf(b_classSubscriptions,
                                                         Rel(agent, conceptClass))))
                  /\ observed' = Each(delivered', Observed)
                  /\ lastCall' = BCall("unsubscribeFromConceptClass", "ok")
             ELSE /\ UNCHANGED b_classSubscriptions
                  /\ delivered' = <<>>
                  /\ observed' = <<>>
                  /\ lastCall' = BCall("unsubscribeFromConceptClass", "NotWellFormed")
  /\ b_conceptSubscriptions' =
       Without(b_conceptSubscriptions,
               {s \in BagToSet(b_conceptSubscriptions) :
                  \E cs \in BagToSet(b_classSubscriptions) \ BagToSet(b_classSubscriptions') :
                    cs.edge1 = s.edge1 /\ isinstance(s.edge2, cs.edge2)})
  /\ UNCHANGED <<b_concepts, b_publications>>
  /\ UNCHANGED <<ovars, pvars>>

\* Blackboard.unsubscribeFromConceptClass: every selected instance is signaled
\* in the scan and removed after it.  The bare 'except' turns every exception
\* raised under 'try', the ill-formed agent's included, into 'Concept class is
\* not well-formed'.
unsubscribeFromConceptClass(agent, conceptClass) ==
  /\ IF conceptClass = None
       THEN IF agent = None
              THEN /\ b_classSubscriptions' = EmptyBag
                   /\ delivered' = Round(SignalsFor("Unsubscribed From Concept Class",
                                                  b_classSubscriptions))
                   /\ observed' = Each(delivered', Observed)
                   /\ lastCall' = BCall("unsubscribeFromConceptClass", "ok")
              ELSE IF isinstance(agent, "Agent")
                THEN /\ b_classSubscriptions' =
                          Without(b_classSubscriptions, WithEdge1(b_classSubscriptions, agent))
                     /\ delivered' = Round(SignalsFor("Unsubscribed from Concept Class",
                                                    Only(b_classSubscriptions,
                                                         WithEdge1(b_classSubscriptions, agent))))
                     /\ observed' = Each(delivered', Observed)
                     /\ lastCall' = BCall("unsubscribeFromConceptClass", "ok")
                ELSE /\ UNCHANGED b_classSubscriptions
                     /\ delivered' = <<>>
                     /\ observed' = <<>>
                     /\ lastCall' = BCall("unsubscribeFromConceptClass", "NotWellFormed")
       ELSE IF conceptClass \notin Classes \/ ~issubclass(conceptClass, "Concept")
         THEN /\ UNCHANGED b_classSubscriptions
              /\ delivered' = <<>>
              /\ observed' = <<>>
              /\ lastCall' = BCall("unsubscribeFromConceptClass", "NotWellFormed")
         ELSE IF agent = None
           THEN /\ b_classSubscriptions' =
                     Without(b_classSubscriptions,
                             WithEdge2(b_classSubscriptions, conceptClass))
                /\ delivered' = Round(SignalsFor("Unsubscribed from concept class",
                                               Only(b_classSubscriptions,
                                                    WithEdge2(b_classSubscriptions, conceptClass))))
                /\ observed' = Each(delivered', Observed)
                /\ lastCall' = BCall("unsubscribeFromConceptClass", "ok")
           ELSE IF isinstance(agent, "Agent")
             THEN /\ b_classSubscriptions' =
                       b_classSubscriptions
                         (-) FirstOf(b_classSubscriptions, Rel(agent, conceptClass))
                  /\ delivered' = Round(SignalsFor("Unsubscribed from concept class",
                                                 FirstOf(b_classSubscriptions,
                                                         Rel(agent, conceptClass))))
                  /\ observed' = Each(delivered', Observed)
                  /\ lastCall' = BCall("unsubscribeFromConceptClass", "ok")
             ELSE /\ UNCHANGED b_classSubscriptions
                  /\ delivered' = <<>>
                  /\ observed' = <<>>
                  /\ lastCall' = BCall("unsubscribeFromConceptClass", "NotWellFormed")
  /\ UNCHANGED <<b_concepts, b_publications, b_conceptSubscriptions>>
  /\ UNCHANGED <<ovars, pvars>>

\* agent.signal(source, message) for a source and a message the caller gives.
Delivery(agent, source, message) ==
  [to |-> agent, source |-> source,
   message |-> [name |-> message, edge1 |-> None, edge2 |-> None]]

\* 'for x in B: x.edge1.signal(source, message)': one signal to the agent at
\* edge1 of every instance held in the bag B.
FanOut(source, message, B) ==
  [sig \in {Delivery(x.edge1, source, message) : x \in BagToSet(B)} |->
     Copies(WithEdge1(B, sig.to), B)]

\* Blackboard.signalPublisher
signalPublisher(source, message, concept) ==
  /\ IF concept = None
       THEN IF ~isinstance(source, "Concept")
              THEN /\ delivered' = <<>>
                   /\ observed' = <<>>
                   /\ lastCall' = BCall("signalPublisher", "NotWellFormed")
              ELSE IF ~isinstance(message, "Concept")
                THEN /\ delivered' = <<>>
                     /\ observed' = <<>>
                     /\ lastCall' = BCall("signalPublisher", "NotWellFormed")
                ELSE /\ delivered' = Round(FanOut(source, message, b_publications))
                     /\ observed' = Each(delivered', Observed)
                     /\ lastCall' = BCall("signalPublisher", "ok")
       ELSE IF ~isinstance(concept, "Concept")
         THEN /\ delivered' = <<>>
              /\ observed' = <<>>
              /\ lastCall' = BCall("signalPublisher", "NotWellFormed")
         ELSE IF concept \notin b_concepts
           THEN /\ delivered' = <<>>
                /\ observed' = <<>>
                /\ lastCall' = BCall("signalPublisher", "NotFound")
           ELSE IF ~isinstance(source, "Concept")
             THEN /\ delivered' = <<>>
                  /\ observed' = <<>>
                  /\ lastCall' = BCall("signalPublisher", "NotWellFormed")
             ELSE IF ~isinstance(message, "Concept")
               THEN /\ delivered' = <<>>
                    /\ observed' = <<>>
                    /\ lastCall' = BCall("signalPublisher", "NotWellFormed")
               \* the scan returns at the first publication of the concept
               ELSE /\ \E publication \in PublicationsFound(b_publications, concept) :
                         delivered' = Round(IF publication = NoPublication THEN EmptyBag
                                            ELSE One(Delivery(publication.edge1, source, message)))
                    /\ observed' = Each(delivered', Observed)
                    /\ lastCall' = BCall("signalPublisher", "ok")
  /\ UNCHANGED bvars
  /\ UNCHANGED <<ovars, pvars>>

\* Blackboard.signalSubscribers
signalSubscribers(source, message, concept) ==
  /\ IF ~isinstance(source, "Concept")
       THEN /\ delivered' = <<>>
            /\ observed' = <<>>
            /\ lastCall' = BCall("signalSubscribers", "NotWellFormed")
       ELSE IF ~isinstance(message, "Concept")
         THEN /\ delivered' = <<>>
              /\ observed' = <<>>
              /\ lastCall' = BCall("signalSubscribers", "NotWellFormed")
         ELSE IF concept = None
           THEN /\ delivered' = Round(FanOut(source, message, b_conceptSubscriptions))
                /\ observed' = Each(delivered', Observed)
                /\ lastCall' = BCall("signalSubscribers", "ok")
           ELSE IF ~isinstance(concept, "Concept")
             THEN /\ delivered' = <<>>
                  /\ observed' = <<>>
                  /\ lastCall' = BCall("signalSubscribers", "NotWellFormed")
             ELSE IF concept \notin b_concepts
               THEN /\ delivered' = <<>>
                    /\ observed' = <<>>
                    /\ lastCall' = BCall("signalSubscribers", "NotFound")
               ELSE /\ delivered' =
                         Round(FanOut(source, message,
                                      Only(b_conceptSubscriptions,
                                           WithEdge2(b_conceptSubscriptions, concept))))
                    /\ observed' = Each(delivered', Observed)
                    /\ lastCall' = BCall("signalSubscribers", "ok")
  /\ UNCHANGED bvars
  /\ UNCHANGED <<ovars, pvars>>

\* Blackboard.signalClassSubscribers.  With a Concept class that has no
\* subscriber the code executes raise('Concept class does not exist'): raising
\* a str is a TypeError, which the handler turns into 'Concept class is not
\* well-formed'.
signalClassSubscribers(source, message, conceptClass) ==
  /\ IF ~isinstance(source, "Concept")
       THEN /\ delivered' = <<>>
            /\ observed' = <<>>
            /\ lastCall' = BCall("signalClassSubscribers", "NotWellFormed")
       ELSE IF ~isinstance(message, "Concept")
         THEN /\ delivered' = <<>>
              /\ observed' = <<>>
              /\ lastCall' = BCall("signalClassSubscribers", "NotWellFormed")
         ELSE IF conceptClass = None
           THEN /\ delivered' = Round(FanOut(source, message, b_classSubscriptions))
                /\ observed' = Each(delivered', Observed)
                /\ lastCall' = BCall("signalClassSubscribers", "ok")
           ELSE IF conceptClass \notin Classes \/ ~issubclass(conceptClass, "Concept")
             THEN /\ delivered' = <<>>
                  /\ observed' = <<>>
                  /\ lastCall' = BCall("signalClassSubscribers", "NotWellFormed")
             ELSE IF WithEdge2(b_classSubscriptions, conceptClass) = {}
               THEN /\ delivered' = <<>>
                    /\ observed' = <<>>
                    /\ lastCall' = BCall("signalClassSubscribers", "NotWellFormed")
               ELSE /\ delivered' =
                         Round(FanOut(source, message,
                                      Only(b_classSubscriptions,
                                           WithEdge2(b_classSubscriptions, conceptClass))))
                    /\ observed' = Each(delivered', Observed)
                    /\ lastCall' = BCall("signalClassSubscribers", "ok")
  /\ UNCHANGED bvars
  /\ UNCHANGED <<ovars, pvars>>

\* One more call on the Blackboard, while the behaviour has calls left.
Called ==
  /\ calls < MaxCalls
  /\ calls' = calls + 1

\* The arguments of the calls: the well-formed ones, None where an argument is
\* optional, and where a call is made with ill-formed arguments a str for the
\* agent and a str or the class str for the concept class.
\* The source and the message of the signals a caller fans out: two Concepts.
Source == ConceptNames[1]
Message == ConceptNames[2]

AgentArgs == Agents \cup {IllFormed}
ClassArgs == ConceptClasses \cup {"str", IllFormed}

BlackboardNext ==
  \/ \E agent \in Agents, concept \in Concepts :
       Called /\ publishConcept(agent, concept)
  \/ \E concept \in Concepts \cup {None} :
       Called /\ unpublishConcept(concept)
  \/ \E agent \in Agents, concept \in Concepts :
       Called /\ subscribeToConcept(agent, concept)
  \/ \E agent \in AgentArgs \cup {None}, concept \in Concepts \cup {None} :
       Called /\ unsubscribeFromConcept(agent, concept)
  \/ \E agent \in AgentArgs, conceptClass \in ClassArgs :
       Called /\ subscribeToConceptClass(agent, conceptClass)
  \/ \E agent \in Agents \cup {None}, conceptClass \in ConceptClasses \cup {None} :
       Called /\ unsubscribeFromConceptClass(agent, conceptClass)
  \/ \E concept \in Concepts \cup {None} :
       Called /\ signalPublisher(Source, Message, concept)
  \/ \E concept \in Concepts \cup {None} :
       Called /\ signalSubscribers(Source, Message, concept)
  \/ \E conceptClass \in ConceptClasses \cup {None} :
       Called /\ signalClassSubscribers(Source, Message, conceptClass)

BlackboardSpec == Init /\ [][BlackboardNext]_vars

\* The calls on the Blackboard, with agents that call it back when signaled.
ReentrantNext ==
  \/ BlackboardNext
  \/ \E at \in Concepts, other \in Concepts :
       Called /\ unpublishConceptReentrant(at, other)

ReentrantSpec == Init /\ [][ReentrantNext]_vars

\* ------------------------------------------------------------------ Agent
\* signalOutcome without the check of the message.
signalOutcome_anyMessage(sourceClass, messageClass, parametersClass) ==
  IF ~issubclass(sourceClass, "Concept") THEN "NotWellFormed"
  ELSE IF parametersClass # None /\ ~issubclass(parametersClass, "Concept")
    THEN "NotWellFormed"
  ELSE "ok"

\* The checks of Agent.signal on the classes of its arguments; parametersClass
\* is None when the caller gives no parameters.
signalOutcome(sourceClass, messageClass, parametersClass) ==
  IF ~issubclass(sourceClass, "Concept") THEN "NotWellFormed"
  ELSE IF ~issubclass(messageClass, "Concept") THEN "NotWellFormed"
  ELSE IF parametersClass # None /\ ~issubclass(parametersClass, "Concept")
    THEN "NotWellFormed"
  ELSE "ok"

\* Agent.signal: the body after the checks is 'pass'.
signal(agent, source, message, parameters) ==
  /\ lastCall' = Call("signal", source, message,
                      signalOutcome(ClassOf(source), ClassOf(message),
                                    IF parameters = None THEN None
                                    ELSE ClassOf(parameters)))
  /\ UNCHANGED <<ovars, pvars, bvars, calls, delivered, observed>>

\* A concept, a relationship, an agent, the Blackboard, a class and a string.
SignalArgs ==
  {ConceptNames[1], RelationshipNames[1], AgentNames[1], TheBlackboard, "Concept", IllFormed}

TheAgent == AgentNames[1]

AgentNext ==
  \E source \in SignalArgs, message \in SignalArgs, parameters \in SignalArgs \cup {None} :
    signal(TheAgent, source, message, parameters)

\* ------------------------------------------------------------ all objects
\* The objects share no state: a concept, a relationship with the Ontology
\* that holds it, a Blackboard and an agent are called one at a time, each
\* from the state in which the others are as constructed.
ConceptAsConstructed == properties[TheConcept] = {}

RelationshipAsConstructed ==
  /\ properties[TheRelationship] = {}
  /\ edge1Properties = {}
  /\ edge2Properties = {}

OntologyAsConstructed ==
  /\ edge1 = FixtureEdge1
  /\ edge2 = FixtureEdge2
  /\ o_concepts = {}
  /\ o_relationships = {}

BlackboardAsConstructed == calls = 0

KernelNext ==
  \/ /\ RelationshipAsConstructed /\ OntologyAsConstructed /\ BlackboardAsConstructed
     /\ ConceptNext
  \/ /\ ConceptAsConstructed /\ OntologyAsConstructed /\ BlackboardAsConstructed
     /\ RelationshipNext
  \/ /\ ConceptAsConstructed /\ RelationshipAsConstructed /\ BlackboardAsConstructed
     /\ ReassignNext
  \/ /\ ConceptAsConstructed /\ RelationshipAsConstructed /\ OntologyAsConstructed
     /\ BlackboardNext
  \/ /\ ConceptAsConstructed /\ RelationshipAsConstructed /\ OntologyAsConstructed
     /\ BlackboardAsConstructed
     /\ AgentNext

KernelSpec == FixtureInit /\ [][KernelNext]_vars

\* ------------------------------------------------ properties of Blackboard
\* The number of publication instances whose edge2 is n.
PublicationsOf(n) == Copies({p \in BagToSet(b_publications) : p.edge2 = n}, b_publications)

\* C6: the publications form a function on the published concepts (exactly
\* one publication for a published concept, none otherwise); publisher(n)
\* returns the agent of the most recent successful publishConcept(a, n) in
\* every state from that call until n is unpublished, and fails with NotFound
\* when n is not published.
C6_Publications ==
  /\ [](\A n \in Concepts :
          /\ PublicationsOf(n) = (IF n \in b_concepts THEN 1 ELSE 0)
          /\ n \notin b_concepts => publisher(n) = Result("NotFound", {}))
  /\ [][/\ (lastCall'.op = "publishConcept" /\ lastCall'.outcome = "ok") =>
             \A n \in Concepts, a \in Agents :
                publishConcept(a, n) => publisher(n)' = Result("ok", {a})
        /\ b_publications' # b_publications =>
             \A n \in Concepts :
                (n \in b_concepts /\ n \in b_concepts') => publisher(n)' = publisher(n)]_vars

\* C6 witness: two concepts are published, by two different agents, and one
\* more call has been made since.
C6_Witness ==
  /\ calls >= 3
  /\ \E n, m \in b_concepts :
       /\ n # m
       /\ publisher(n).outcome = "ok" /\ publisher(m).outcome = "ok"
       /\ publisher(n).agents # publisher(m).agents

\* C7: after every call on the Blackboard every concept subscription refers
\* to a concept that is currently published.
C7_SubscriptionsPublished ==
  \A s \in BagToSet(b_conceptSubscriptions) : s.edge2 \in b_concepts

\* C7 witness: a concept that an agent with a matching class subscription
\* had been subscribed to is unpublished (three calls: subscribeToConceptClass,
\* publishConcept, unpublishConcept), and another concept is published.
C7_Witness ==
  /\ calls = 4 /\ lastCall.outcome = "ok"
  /\ \E n \in Concepts \ b_concepts :
       /\ \E cs \in BagToSet(b_classSubscriptions) : isinstance(n, cs.edge2)
       /\ \E m \in b_concepts : m # n /\ subscribers(m).agents # {}
  /\ Cardinality(BagToSet(b_classSubscriptions)) = 1

\* C8: an agent holds at most one concept subscription to a given concept,
\* whether made by subscribeToConcept or manifested by publishConcept from
\* class subscriptions (several matching class subscriptions included).
C8_AtMostOneSubscription ==
  \A a \in Agents, n \in Concepts : CopiesIn(Rel(a, n), b_conceptSubscriptions) <= 1

\* C9: right after a successful publishConcept(b, n), subscribers(n) is
\* exactly the set of agents that held a class subscription to a class that n
\* is an instance of (the class of n or a base class of it).
C9_ManifestSubscribers ==
  [][(lastCall'.op = "publishConcept" /\ lastCall'.outcome = "ok") =>
       \A b \in Agents, n \in Concepts :
          publishConcept(b, n) =>
             subscribers(n)' =
               Result("ok", {a \in Agents :
                               \E cs \in BagToSet(b_classSubscriptions) :
                                  cs.edge1 = a /\ isinstance(n, cs.edge2)})]_vars

\* C9 witness: an instance of Concept has been published while one agent was
\* subscribed to Concept and another only to the subclass AnotherConcept; the
\* first is its only subscriber (three calls, so the subscription was manifested
\* by publishConcept).
C9_Witness ==
  /\ calls = 3 /\ lastCall.outcome = "ok"
  /\ \E n \in b_concepts, a, b \in Agents :
       /\ ClassOf(n) = "Concept" /\ a # b
       /\ BagToSet(b_classSubscriptions) = {Rel(a, "Concept"), Rel(b, "AnotherConcept")}
       /\ subscribers(n) = Result("ok", {a})
       /\ publisher(n) = Result("ok", {b})

\* C10: no retroactive attachment.  subscribeToConceptClass creates no
\* concept subscription, and an agent becomes a subscriber of n only by
\* subscribeToConcept(a, n) or by a publishConcept of n.
C10_NoRetroactiveAttachment ==
  [][/\ lastCall'.op = "subscribeToConceptClass" =>
          \A a \in Agents, k \in ConceptClasses :
             subscribeToConceptClass(a, k) =>
                /\ b_conceptSubscriptions' = b_conceptSubscriptions
                /\ \A n \in Concepts : subscribers(n)' = subscribers(n)
     /\ (b_conceptSubscriptions' # b_conceptSubscriptions \/ b_concepts' # b_concepts) =>
          \A a \in Agents, n \in Concepts :
             (a \notin subscribers(n).agents /\ a \in subscribers(n)'.agents) =>
                \/ subscribeToConcept(a, n)
                \/ \E b \in Agents : publishConcept(b, n) /\ n \notin b_concepts]_vars

\* C10 witness: an agent has subscribed to a class of an already published
\* concept (two calls) and is not a subscriber of that concept.
C10_Witness ==
  /\ calls = 2 /\ lastCall.outcome = "ok"
  /\ \E n \in b_concepts, a \in Agents :
       /\ Rel(a, ClassOf(n)) \in BagToSet(b_classSubscriptions)
       /\ a \notin subscribers(n).agents

\* The names of the messages that tell an agent that a subscription of its to
\* a concept has been withdrawn.
UnsubscribedFromConcept == {"Unsubscribed From Concept", "Unsubscribed from Concept"}

\* The number of signals in B that tell agent a that its subscription to n
\* has been withdrawn.
Withdrawals(B, a, n) ==
  Copies({sig \in BagToSet(B) :
            /\ sig.to = a
            /\ sig.message.name \in UnsubscribedFromConcept
            /\ sig.message.edge2 = n}, B)

\* The number of signals in B that tell agent a that its publication of n
\* has been withdrawn.
Unpublications(B, a, n) ==
  CopiesIn(Signal("Unpublished Concept", Rel(a, n)), B)

\* C11: cascading unpublish.  In every reachable state in which agent A is a
\* subscriber of the published concept n, unpublishConcept(n) removes every
\* concept subscription to n, signals A exactly once that its subscription to
\* n is withdrawn, and subscribers(n) fails with NotFound afterwards.
C11_CascadingUnpublish ==
  [][\A n \in Concepts :
       (/\ lastCall'.op = "unpublishConcept"
        /\ n \in b_concepts /\ n \notin b_concepts'
        /\ unpublishConcept(n)) =>
          /\ WithEdge2(b_conceptSubscriptions', n) = {}
          /\ subscribers(n)' = Result("NotFound", {})
          /\ \A A \in subscribers(n).agents : Withdrawals(signals', A, n) = 1]_vars

\* C12: publishConcept(a, n) for a published n fails with AlreadyExists for
\* every agent a, and unpublishConcept(n) for an n that is not published fails
\* with NotFound; both leave the concepts, the publications and the concept
\* and class subscriptions as they were and signal no agent.
C12_PublishUnpublishFailures ==
  [][\A n \in Concepts :
       /\ \A a \in Agents :
            (lastCall'.op = "publishConcept" /\ n \in b_concepts
             /\ publishConcept(a, n)) =>
               (lastCall'.outcome = "AlreadyExists" /\ UNCHANGED bvars
                /\ signals' = EmptyBag)
       /\ (lastCall'.op = "unpublishConcept" /\ n \notin b_concepts
           /\ unpublishConcept(n)) =>
            (lastCall'.outcome = "NotFound" /\ UNCHANGED bvars
             /\ signals' = EmptyBag)]_vars

\* C12 witness: a publishConcept has failed with AlreadyExists on a Blackboard
\* that holds a published concept with a subscriber; it signaled no agent.
C12_Witness ==
  /\ lastCall = BCall("publishConcept", "AlreadyExists")
  /\ b_concepts # {}
  /\ b_conceptSubscriptions # EmptyBag
  /\ signals = EmptyBag

\* C13: unpublishConcept() with no concept unpublishes every published
\* concept: afterwards the concepts, the publications and the concept
\* subscriptions are empty and the class subscriptions are as before; every
\* publisher has been signaled once for every concept it had published and
\* every subscriber once for every subscription it held, and no other signal
\* was sent; with nothing published the call succeeds and changes nothing.
C13_UnpublishAll ==
  [][(lastCall'.op = "unpublishConcept" /\ unpublishConcept(None)) =>
       /\ lastCall'.outcome = "ok"
       /\ b_concepts' = {}
       /\ b_publications' = EmptyBag
       /\ b_conceptSubscriptions' = EmptyBag
       /\ UNCHANGED b_classSubscriptions
       /\ \A a \in Agents, n \in Concepts :
            /\ Unpublications(signals', a, n) = CopiesIn(Rel(a, n), b_publications)
            /\ Withdrawals(signals', a, n) = CopiesIn(Rel(a, n), b_conceptSubscriptions)
       /\ BagCardinality(signals') =
            BagCardinality(b_publications) + BagCardinality(b_conceptSubscriptions)
       /\ b_concepts = {} => (UNCHANGED bvars /\ signals' = EmptyBag)]_vars

\* C13 witness: an unpublishConcept has emptied a Blackboard on which two
\* concepts were published and one of them had a subscriber: two publishers'
\* signals and a subscriber's signal were sent.
C13_Witness ==
  /\ lastCall = BCall("unpublishConcept", "ok")
  /\ b_concepts = {} /\ b_publications = EmptyBag /\ b_conceptSubscriptions = EmptyBag
  /\ \E s1, s2, s3 \in BagToSet(signals) :
       /\ s1.message.name = "Unpublished Concept"
       /\ s2.message.name = "Unpublished Concept"
       /\ s1.message.edge2 # s2.message.edge2
       /\ s3.message.name \in UnsubscribedFromConcept

\* C14: the life of a concept is Unpublished -> Published -> Unpublished.
\* Only publishConcept makes a concept published and only unpublishConcept
\* (of the concept, or of all) makes it unpublished: no subscribe or
\* unsubscribe call changes the published concepts.  An unpublished concept,
\* one that was published before included, can be published by any agent;
\* publisher then returns that agent, and the only subscriptions to the
\* concept are those made manifest from the class subscriptions: what was
\* subscribed before it was unpublished is not restored.
C14_Lifecycle ==
  [][/\ lastCall'.op \notin {"publishConcept", "unpublishConcept"} => UNCHANGED b_concepts
     /\ \A n \in Concepts :
          /\ (n \notin b_concepts /\ n \in b_concepts') =>
                \E a \in Agents : publishConcept(a, n)
          /\ (n \in b_concepts /\ n \notin b_concepts') =>
                (unpublishConcept(n) \/ unpublishConcept(None))
          /\ \A a \in Agents :
               (lastCall'.op = "publishConcept" /\ n \notin b_concepts
                /\ publishConcept(a, n)) =>
                  /\ lastCall'.outcome = "ok"
                  /\ n \in b_concepts'
                  /\ publisher(n)' = Result("ok", {a})
                  /\ \A s \in WithEdge2(b_conceptSubscriptions', n) :
                       \E cs \in BagToSet(b_classSubscriptions) :
                          cs.edge1 = s.edge1 /\ isinstance(n, cs.edge2)]_vars

\* C14 witness: a concept has just been unpublished, which withdrew the
\* subscription of an agent that holds no class subscription, and the
\* behaviour has a call left to publish it again.
C14_Witness ==
  /\ lastCall = BCall("unpublishConcept", "ok")
  /\ calls < MaxCalls
  /\ \E sig \in BagToSet(signals) :
       /\ sig.message.name \in UnsubscribedFromConcept
       /\ sig.message.edge2 \notin b_concepts
       /\ WithEdge1(b_classSubscriptions, sig.to) = {}

\* C15: subscribeToConcept(a, n) fails with AlreadyExists when a is
\* subscribed to n and with NotFound when n is not published;
\* unsubscribeFromConcept with a concept that is not published fails with
\* NotFound whatever the agent argument (an agent, none, not an agent).  Each
\* of these failures leaves the Blackboard as it was and signals no agent.
C15_SubscribeFailures ==
  [][\A n \in Concepts :
       /\ \A a \in Agents :
            (lastCall'.op = "subscribeToConcept" /\ subscribeToConcept(a, n)) =>
               /\ n \notin b_concepts =>
                    (lastCall'.outcome = "NotFound" /\ UNCHANGED bvars
                     /\ signals' = EmptyBag)
               /\ (n \in b_concepts /\ Rel(a, n) \in BagToSet(b_conceptSubscriptions)) =>
                    (lastCall'.outcome = "AlreadyExists" /\ UNCHANGED bvars
                     /\ signals' = EmptyBag)
       /\ \A a \in AgentArgs \cup {None} :
            (lastCall'.op = "unsubscribeFromConcept" /\ n \notin b_concepts
             /\ unsubscribeFromConcept(a, n)) =>
               (lastCall'.outcome = "NotFound" /\ UNCHANGED bvars
                /\ signals' = EmptyBag)]_vars

\* C15 witness: a subscribeToConcept has failed with AlreadyExists while
\* another concept was not published (so the calls that fail with NotFound
\* were possible in the state before).
C15_Witness ==
  /\ lastCall = BCall("subscribeToConcept", "AlreadyExists")
  /\ b_conceptSubscriptions # EmptyBag
  /\ Concepts \ b_concepts # {}
  /\ signals = EmptyBag

\* The concept subscriptions that the arguments of unsubscribeFromConcept
\* select: an argument that is omitted selects every agent, every concept.
Selected(B, a, n) ==
  {x \in BagToSet(B) : (a = None \/ x.edge1 = a) /\ (n = None \/ x.edge2 = n)}

\* C16: unsubscribeFromConcept removes exactly the concept subscriptions its
\* arguments select and nothing else: all of them with no argument, all of
\* the agent's with the agent only, all to the concept with the concept only,
\* the subscription of the agent to the concept with both, after which the
\* agent is not among subscribers(concept); the publications, the published
\* concepts and the class subscriptions are unchanged.
C16_UnsubscribeSelector ==
  [][(lastCall'.op = "unsubscribeFromConcept" /\ lastCall'.outcome = "ok") =>
       \A a \in Agents \cup {None}, n \in Concepts \cup {None} :
          unsubscribeFromConcept(a, n) =>
             /\ b_conceptSubscriptions' =
                  Without(b_conceptSubscriptions, Selected(b_conceptSubscriptions, a, n))
             /\ UNCHANGED <<b_concepts, b_publications, b_classSubscriptions>>
             /\ (a # None /\ n # None) => a \notin subscribers(n)'.agents]_vars

\* C17: an agent holds at most one subscription to a given concept class.
\* subscribeToConceptClass(A, C) fails with AlreadyExists when A is subscribed
\* to C, changes nothing and signals no agent; otherwise it is accepted,
\* whether or not A is subscribed to another class (a subclass or a base class
\* of C included) and whether or not other agents are subscribed to C.
C17_AtMostOneClassSubscription ==
  /\ [](\A a \in Agents, k \in ConceptClasses :
          CopiesIn(Rel(a, k), b_classSubscriptions) <= 1)
  /\ [][lastCall'.op = "subscribeToConceptClass" =>
          \A a \in Agents, k \in ConceptClasses :
             subscribeToConceptClass(a, k) =>
                IF Rel(a, k) \in BagToSet(b_classSubscriptions)
                  THEN /\ lastCall'.outcome = "AlreadyExists"
                       /\ UNCHANGED bvars
                       /\ signals' = EmptyBag
                  ELSE /\ lastCall'.outcome = "ok"
                       /\ b_classSubscriptions' =
                            b_classSubscriptions (+) One(Rel(a, k))]_vars

\* C17 witness: a subscribeToConceptClass has failed with AlreadyExists while
\* an agent was subscribed to a class and to its subclass and another agent to
\* one of these classes.
C17_Witness ==
  /\ lastCall = BCall("subscribeToConceptClass", "AlreadyExists")
  /\ \E a, b \in Agents :
       /\ a # b
       /\ BagToSet(b_classSubscriptions) =
            {Rel(a, "Concept"), Rel(a, "AnotherConcept"), Rel(b, "Concept")}

\* C18: class subscriptions are independent of what is published.
\* subscribeToConceptClass of a new pair succeeds whatever is published, also
\* when no published concept is an instance of the class; and no call other
\* than subscribeToConceptClass and unsubscribeFromConceptClass (publishConcept,
\* unpublishConcept of one or of all, subscribeToConcept,
\* unsubscribeFromConcept, the three signal operations) changes the class
\* subscriptions.
C18_ClassSubscriptionsIndependent ==
  [][/\ lastCall'.op \notin {"subscribeToConceptClass", "unsubscribeFromConceptClass"}
          => UNCHANGED b_classSubscriptions
     /\ lastCall'.op = "subscribeToConceptClass" =>
          \A a \in Agents, k \in ConceptClasses :
             (/\ subscribeToConceptClass(a, k)
              /\ Rel(a, k) \notin BagToSet(b_classSubscriptions)
              /\ \A n \in b_concepts : ~isinstance(n, k))
               => (/\ lastCall'.outcome = "ok"
                   /\ Rel(a, k) \in BagToSet(b_classSubscriptions')
                   /\ UNCHANGED <<b_concepts, b_publications, b_conceptSubscriptions>>)]_vars

\* C18 witness: a concept whose subscriber holds a class subscription has
\* just been unpublished: the subscriber was signaled that its subscription
\* to the concept is withdrawn, and its class subscription is still there.
C18_Witness ==
  /\ lastCall = BCall("unpublishConcept", "ok")
  /\ \E sig \in BagToSet(signals) :
       /\ sig.message.name \in UnsubscribedFromConcept
       /\ WithEdge1(b_classSubscriptions, sig.to) # {}

\* C19: subscribeToConceptClass(agent, conceptClass) fails with NotWellFormed
\* whenever conceptClass is not a Concept class, be it no class at all or a
\* class that does not derive from Concept, and whenever agent is not an
\* Agent; then no class subscription is recorded and no agent is signaled.
C19_ClassNotWellFormed ==
  [][lastCall'.op = "subscribeToConceptClass" =>
       \A a \in AgentArgs, k \in ClassArgs :
          (/\ subscribeToConceptClass(a, k)
           /\ \/ ~isinstance(a, "Agent")
              \/ k \notin Classes
              \/ ~issubclass(k, "Concept"))
            => (/\ lastCall'.outcome = "NotWellFormed"
                /\ UNCHANGED bvars
                /\ signals' = EmptyBag)]_vars

\* The names of the messages that tell an agent that a subscription of its to
\* a concept class has been withdrawn.
UnsubscribedFromConceptClass ==
  {"Unsubscribed From Concept Class", "Unsubscribed from Concept Class",
   "Unsubscribed from concept class"}

\* The number of signals in B that tell the agent of the class subscription x
\* that x has been withdrawn.
ClassWithdrawals(B, x) ==
  Copies({sig \in BagToSet(B) :
            /\ sig.to = x.edge1
            /\ sig.source = TheBlackboard
            /\ sig.message.name \in UnsubscribedFromConceptClass
            /\ sig.message.edge1 = x.edge1
            /\ sig.message.edge2 = x.edge2}, B)

\* C20: unsubscribeFromConceptClass has the four-way selector of
\* unsubscribeFromConcept: it removes exactly the class subscriptions that
\* match the agent and the class given (all of them when both are omitted),
\* signals the agent of every removed subscription once and no one else, and
\* leaves every other class subscription, the concept subscriptions, the
\* publications and the published concepts as they were.
C20_UnsubscribeClassSelector ==
  [][lastCall'.op = "unsubscribeFromConceptClass" =>
       \A a \in Agents \cup {None}, k \in ConceptClasses \cup {None} :
          unsubscribeFromConceptClass(a, k) =>
             /\ lastCall'.outcome = "ok"
             /\ b_classSubscriptions' =
                  Without(b_classSubscriptions, Selected(b_classSubscriptions, a, k))
             /\ UNCHANGED <<b_concepts, b_publications, b_conceptSubscriptions>>
             /\ \A x \in BagToSet(b_classSubscriptions) :
                  ClassWithdrawals(signals', x) =
                    (IF x \in Selected(b_classSubscriptions, a, k) THEN 1 ELSE 0)
             /\ BagCardinality(signals') =
                  Cardinality(Selected(b_classSubscriptions, a, k))]_vars

\* C20 witness: an unsubscribeFromConceptClass has removed the subscription
\* of an agent to a class and left the subscription of that agent to another
\* class and that of another agent to the same class; one agent was signaled.
C20_Witness ==
  /\ lastCall = BCall("unsubscribeFromConceptClass", "ok")
  /\ \E sig \in BagToSet(signals), x, y \in BagToSet(b_classSubscriptions) :
       /\ sig.message.name \in UnsubscribedFromConceptClass
       /\ x.edge1 = sig.to /\ x.edge2 # sig.message.edge2
       /\ y.edge1 # sig.to /\ y.edge2 = sig.message.edge2
  /\ BagCardinality(signals) = 1

\* The number of signals in S, with a name among names, that the Blackboard
\* sent to agent a with a message naming a and v (a concept or a class).
Notified(S, names, a, v) ==
  Copies({sig \in BagToSet(S) :
            /\ sig.to = a
            /\ sig.source = TheBlackboard
            /\ sig.message.name \in names
            /\ sig.message.edge1 = a
            /\ sig.message.edge2 = v}, S)

\* The operations of the Blackboard that change its collections.
StateChanging ==
  {"publishConcept", "unpublishConcept", "subscribeToConcept", "unsubscribeFromConcept",
   "subscribeToConceptClass", "unsubscribeFromConceptClass"}

\* C21: every successful state-changing operation of the Blackboard delivers
\* exactly one signal for every record it creates or removes, to the agent of
\* that record, with the Blackboard as source and a message naming that agent
\* and the concept or class: a publication created or removed signals the
\* publisher, a concept or class subscription created (by a subscribe call or
\* made manifest by publishConcept) or removed (by an unsubscribe call or by
\* unpublishConcept) signals the subscriber; no other signal is delivered.
C21_OneSignalPerRecord ==
  [][(lastCall'.op \in StateChanging /\ lastCall'.outcome = "ok") =>
       /\ \A a \in Agents, n \in Concepts :
            /\ Notified(signals', {"Published Concept"}, a, n) =
                 CopiesIn(Rel(a, n), b_publications' (-) b_publications)
            /\ Notified(signals', {"Unpublished Concept"}, a, n) =
                 CopiesIn(Rel(a, n), b_publications (-) b_publications')
            /\ Notified(signals', {"Subscribed To Concept",
                                   "Subscribed To Concept Class Instance"}, a, n) =
                 CopiesIn(Rel(a, n), b_conceptSubscriptions' (-) b_conceptSubscriptions)
            /\ Notified(signals', UnsubscribedFromConcept, a, n) =
                 CopiesIn(Rel(a, n), b_conceptSubscriptions (-) b_conceptSubscriptions')
       /\ \A a \in Agents, k \in ConceptClasses :
            /\ Notified(signals', {"Subscribed To Concept Class"}, a, k) =
                 CopiesIn(Rel(a, k), b_classSubscriptions' (-) b_classSubscriptions)
            /\ Notified(signals', UnsubscribedFromConceptClass, a, k) =
                 CopiesIn(Rel(a, k), b_classSubscriptions (-) b_classSubscriptions')
       /\ BagCardinality(signals') =
            BagCardinality(b_publications' (-) b_publications)
            + BagCardinality(b_publications (-) b_publications')
            + BagCardinality(b_conceptSubscriptions' (-) b_conceptSubscriptions)
            + BagCardinality(b_conceptSubscriptions (-) b_conceptSubscriptions')
            + BagCardinality(b_classSubscriptions' (-) b_classSubscriptions)
            + BagCardinality(b_classSubscriptions (-) b_classSubscriptions')]_vars

\* C21 witness: an unpublishConcept has removed a publication and two
\* subscription records of one agent to the concept (made manifest from two
\* class subscriptions): the publisher was signaled once, the subscriber twice.
C21_Witness ==
  /\ lastCall = BCall("unpublishConcept", "ok")
  /\ BagCardinality(signals) = 3
  /\ \E a, b \in Agents, n \in Concepts :
       /\ a # b
       /\ Notified(signals, {"Unpublished Concept"}, b, n) = 1
       /\ Notified(signals, UnsubscribedFromConcept, a, n) = 2

\* The positions in the sequence of deliveries at which the Blackboard sent a
\* signal with a name among names and a message about n.
RoundsOf(rounds, names, n) ==
  {i \in DOMAIN rounds :
     \E sig \in BagToSet(rounds[i]) :
        sig.source = TheBlackboard /\ sig.message.name \in names /\ sig.message.edge2 = n}

\* C22: the order of the signals of one call.  In publishConcept(a, n) the
\* signal that tells a of the publication is delivered before every signal
\* that tells an agent of its subscription to n made manifest; in
\* unpublishConcept, for every concept n it unpublishes, the signal that tells
\* the publisher of the withdrawal is delivered before every signal that tells
\* a subscriber of n of the withdrawal.
C22_SignalOrder ==
  [][/\ (lastCall'.op = "publishConcept" /\ lastCall'.outcome = "ok") =>
          \A a \in Agents, n \in Concepts :
             publishConcept(a, n) =>
                /\ RoundsOf(delivered', {"Published Concept"}, n) = {1}
                /\ delivered'[1] = One(Signal("Published Concept", Rel(a, n)))
                /\ \A j \in RoundsOf(delivered', {"Subscribed To Concept Class Instance"}, n) :
                     1 < j
     /\ (lastCall'.op = "unpublishConcept" /\ lastCall'.outcome = "ok") =>
          \A n \in b_concepts \ b_concepts' :
             /\ Cardinality(RoundsOf(delivered', {"Unpublished Concept"}, n)) = 1
             /\ \A i \in RoundsOf(delivered', {"Unpublished Concept"}, n),
                   j \in RoundsOf(delivered', UnsubscribedFromConcept, n) : i < j]_vars

\* C22 witness: an unpublishConcept of one concept has signaled the publisher
\* and then a subscriber, another agent.
C22_Witness ==
  /\ lastCall = BCall("unpublishConcept", "ok")
  /\ Len(delivered) = 2
  /\ \E p \in BagToSet(delivered[1]), u \in BagToSet(delivered[2]) :
       /\ p.message.name = "Unpublished Concept"
       /\ u.message.name \in UnsubscribedFromConcept
       /\ u.message.edge2 = p.message.edge2
       /\ u.to # p.to

\* One signal from source with message for every agent of the set.
OnceEach(agents, source, message) ==
  SetToBag({Delivery(a, source, message) : a \in agents})

\* C23: signalPublisher and signalSubscribers are pure fan-out.  With a
\* published concept they signal the publisher of the concept once,
\* respectively each subscriber of the concept once, and no one else; with no
\* concept they signal every publisher once per publication, respectively every
\* subscriber once per subscription; with a concept that is not published they
\* fail with NotFound and signal no one; the published concepts, the
\* publications and the concept and class subscriptions are unchanged.
C23_PureFanOut ==
  [][\A n \in Concepts \cup {None} :
       /\ (lastCall'.op = "signalPublisher" /\ signalPublisher(Source, Message, n)) =>
            /\ UNCHANGED bvars
            /\ IF n = None
                 THEN /\ lastCall'.outcome = "ok"
                      /\ signals' = FanOut(Source, Message, b_publications)
                 ELSE IF n \in b_concepts
                   THEN /\ lastCall'.outcome = "ok"
                        /\ signals' = OnceEach(publisher(n).agents, Source, Message)
                   ELSE /\ lastCall'.outcome = "NotFound"
                        /\ signals' = EmptyBag
       /\ (lastCall'.op = "signalSubscribers" /\ signalSubscribers(Source, Message, n)) =>
            /\ UNCHANGED bvars
            /\ IF n = None
                 THEN /\ lastCall'.outcome = "ok"
                      /\ signals' = FanOut(Source, Message, b_conceptSubscriptions)
                 ELSE IF n \in b_concepts
                   THEN /\ lastCall'.outcome = "ok"
                        /\ signals' = OnceEach(subscribers(n).agents, Source, Message)
                   ELSE /\ lastCall'.outcome = "NotFound"
                        /\ signals' = EmptyBag]_vars

EdgesOfRelationships ==
  {edge1[relationship] : relationship \in o_relationships}
    \cup {edge2[relationship] : relationship \in o_relationships}

\* Ontology.numberOfBoundConcepts
numberOfBoundConcepts == Cardinality(EdgesOfRelationships)

\* Ontology.numberOfUnboundConcepts: the edges are discarded from a copy of
\* the concepts.
numberOfUnboundConcepts == Cardinality(o_concepts \ EdgesOfRelationships)

\* Ontology.iterateOverBoundConcepts with no name and no class: the concepts
\* the function is applied to.
iterateOverBoundConcepts == EdgesOfRelationships

\* Ontology.iterateOverUnboundConcepts with no name and no class.
iterateOverUnboundConcepts == o_concepts \ EdgesOfRelationships

\* C28: the numbers of bound and unbound concepts partition the concepts by
\* conceptIsBound.  In every state reached by the operations of the Ontology
\* and reassignments of the edges of a resident relationship,
\* numberOfBoundConcepts is the number of members n with conceptIsBound(n),
\* numberOfUnboundConcepts the number of members without, their sum is the
\* number of concepts, and iterateOverBoundConcepts and
\* iterateOverUnboundConcepts (no name, no class) visit exactly these two sets
\* of members.
C28_BoundPartition ==
  LET bound == {n \in o_concepts : conceptIsBound(n)}
      unbound == {n \in o_concepts : ~conceptIsBound(n)}
  IN /\ numberOfBoundConcepts = Cardinality(bound)
     /\ numberOfUnboundConcepts = Cardinality(unbound)
     /\ numberOfBoundConcepts + numberOfUnboundConcepts = Cardinality(o_concepts)
     /\ iterateOverBoundConcepts = bound
     /\ iterateOverUnboundConcepts = unbound

\* C25: membership in the properties of a concept goes by identity, and so
\* does membership in the concepts and the relationships of an Ontology.
\* addProperty(p) fails with AlreadyExists exactly when the instance p is a
\* member and changes nothing; otherwise p is added and numberOfProperties
\* grows by one, also when a member has the name and the value of p.
\* removeProperty(p) fails with NotFound when p is not a member; otherwise it
\* removes exactly p, so that after addProperty(p) it gives back the set there
\* was before, and propertyExists(p) is false.  In the same way addConcept and
\* addRelationship fail with AlreadyExists exactly for a member, and addConcept
\* of another instance adds one concept.
C25_IdentityMembership ==
  [][/\ lastCall'.op = "addProperty" =>
          \A p \in Properties :
             addProperty(TheConcept, p) =>
                IF p \in properties[TheConcept]
                  THEN lastCall'.outcome = "AlreadyExists" /\ UNCHANGED properties
                  ELSE /\ lastCall'.outcome = "ok"
                       /\ properties'[TheConcept] = properties[TheConcept] \cup {p}
                       /\ numberOfProperties(TheConcept)' = numberOfProperties(TheConcept) + 1
                       /\ propertyExists(TheConcept, p)'.value
     /\ lastCall'.op = "removeProperty" =>
          \A p \in Properties :
             removeProperty(TheConcept, p) =>
                IF p \notin properties[TheConcept]
                  THEN lastCall'.outcome = "NotFound" /\ UNCHANGED properties
                  ELSE /\ lastCall'.outcome = "ok"
                       /\ properties'[TheConcept] = properties[TheConcept] \ {p}
                       /\ ~propertyExists(TheConcept, p)'.value
                       /\ lastCall = Call("addProperty", TheConcept, p, "ok") =>
                            numberOfProperties(TheConcept)' = numberOfProperties(TheConcept) - 1
     /\ lastCall'.op = "addConcept" =>
          \A n \in Concepts :
             (lastCall'.a = n /\ addConcept(n)) =>
                IF n \in o_concepts
                  THEN lastCall'.outcome = "AlreadyExists" /\ UNCHANGED o_concepts
                  ELSE /\ lastCall'.outcome = "ok"
                       /\ o_concepts' = o_concepts \cup {n}
                       /\ Cardinality(o_concepts') = Cardinality(o_concepts) + 1
     /\ lastCall'.op = "addRelationship" =>
          \A e \in Relationships :
             (lastCall'.a = e /\ addRelationship(e)) =>
                (lastCall'.outcome = "AlreadyExists" <=> e \in o_relationships)]_vars

\* C25 witness: a property has been added to a concept that holds another
\* property instance with the same name and the same value; the concept has
\* two properties.
C25_Witness ==
  /\ lastCall.op = "addProperty" /\ lastCall.outcome = "ok"
  /\ numberOfProperties(TheConcept) = 2
  /\ \E p, q \in properties[TheConcept] :
       /\ p # q /\ lastCall.b = p
       /\ NameOf(p) = NameOf(q)
       /\ PropertyValueOf[IndexOf(p)] = PropertyValueOf[IndexOf(q)]

\* The properties of the edge that the selector names, and of the other one.
EdgeProperties(edge) == IF edge = EDGE1 THEN edge1Properties ELSE edge2Properties
OtherEdgeProperties(edge) == IF edge = EDGE1 THEN edge2Properties ELSE edge1Properties

\* C26: the properties of the two edges of a relationship are independent.
\* addEdgeProperty, removeEdgeProperty and removeAllEdgeProperties on one edge
\* never change the properties of the other edge nor the relationship's own
\* properties, and their outcome depends on the properties of that edge only:
\* a property that is a member for the other edge is added, it is then a
\* member for both, and removing it for one edge leaves it a member for the
\* other.
C26_EdgePropertiesIndependent ==
  [][\A edge \in {EDGE1, EDGE2} :
       /\ lastCall'.op = "addEdgeProperty" =>
            \A p \in Properties :
               addEdgeProperty(edge, p) =>
                  /\ OtherEdgeProperties(edge)' = OtherEdgeProperties(edge)
                  /\ UNCHANGED properties
                  /\ IF p \in EdgeProperties(edge)
                       THEN /\ lastCall'.outcome = "AlreadyExists"
                            /\ EdgeProperties(edge)' = EdgeProperties(edge)
                       ELSE /\ lastCall'.outcome = "ok"
                            /\ EdgeProperties(edge)' = EdgeProperties(edge) \cup {p}
       /\ lastCall'.op = "removeEdgeProperty" =>
            \A p \in Properties :
               removeEdgeProperty(edge, p) =>
                  /\ OtherEdgeProperties(edge)' = OtherEdgeProperties(edge)
                  /\ UNCHANGED properties
                  /\ IF p \in EdgeProperties(edge)
                       THEN /\ lastCall'.outcome = "ok"
                            /\ EdgeProperties(edge)' = EdgeProperties(edge) \ {p}
                       ELSE /\ lastCall'.outcome = "NotFound"
                            /\ EdgeProperties(edge)' = EdgeProperties(edge)
       /\ (lastCall'.op = "removeAllEdgeProperties" /\ removeAllEdgeProperties(edge)) =>
            /\ OtherEdgeProperties(edge)' = OtherEdgeProperties(edge)
            /\ UNCHANGED properties
            /\ EdgeProperties(edge)' = {}]_vars

\* C26 witness: a property that is a member for both edges and is one of the
\* relationship's own properties has been removed for edge1: it is still a
\* member for edge2 and one of the relationship's own.
C26_Witness ==
  /\ lastCall.op = "removeEdgeProperty" /\ lastCall.a = EDGE1 /\ lastCall.outcome = "ok"
  /\ lastCall.b \notin edge1Properties
  /\ lastCall.b \in edge2Properties
  /\ lastCall.b \in properties[TheRelationship]

\* The classes of properties: Property and the classes that derive from it.
PropertyClasses == {"Property", "AnotherProperty"}

\* C29: iterateOverProperties(function, name, propertyClass) applies function
\* exactly once to every member whose name is the name given (if one is given)
\* and whose class is the class given or derives from it (if one is given), and
\* to no other property; with neither it visits every member; with a
\* propertyClass that is not a Property class it fails with NotWellFormed and
\* visits nothing; the members are the same after the iteration.
C29_IterateOverProperties ==
  [][lastCall'.op = "iterateOverProperties" =>
       \A name \in NameArgs, k \in PropertyClassArgs :
          iterateOverProperties(TheConcept, name, k) =>
             /\ UNCHANGED properties
             /\ IF k = None \/ k \in PropertyClasses
                  THEN /\ lastCall'.outcome = "ok"
                       /\ \A p \in Properties :
                            CopiesIn(p, visited') =
                              (IF /\ p \in properties[TheConcept]
                                  /\ name # None => NameOf(p) = name
                                  /\ k # None => issubclass(ClassOf(p), k)
                                 THEN 1 ELSE 0)
                       /\ BagToSet(visited') \subseteq Properties
                  ELSE /\ lastCall'.outcome = "NotWellFormed"
                       /\ visited' = EmptyBag]_vars

\* C29 witness: an iteration by the name of an AnotherProperty instance and
\* the class Property over a concept that holds three properties, two of them
\* with another name, has visited that instance and nothing else.
C29_Witness ==
  /\ lastCall.op = "iterateOverProperties" /\ lastCall.outcome = "ok"
  /\ lastCall.b = "Property"
  /\ numberOfProperties(TheConcept) = 3
  /\ \E p \in properties[TheConcept] :
       /\ ClassOf(p) = "AnotherProperty"
       /\ lastCall.a = NameOf(p)
       /\ visited = SetToBag({p})

\* ------------------------------------------------------ properties of Agent
\* The instances of Concept and of its subclasses among the arguments.
ConceptInstances == Concepts \cup Relationships \cup Agents \cup {TheBlackboard}

\* The class of the message of a delivered signal: a message with edges is a
\* Relationship the Blackboard created, one without is the caller's concept.
MessageClass(message) ==
  IF message.edge1 = None THEN ClassOf(message.name) ELSE "Relationship"

\* C30: signal(source, message, parameters) fails with NotWellFormed when the
\* source is not a Concept instance, when the message is not one, or when
\* parameters are given and are not one; otherwise it returns, and in both
\* cases no state changes. Every signal the Blackboard delivers has a source
\* and a message that pass these checks.
C30_SignalValidation ==
  /\ [][lastCall'.op = "signal" =>
          \A source \in SignalArgs, message \in SignalArgs,
             parameters \in SignalArgs \cup {None} :
            signal(TheAgent, source, message, parameters) =>
              /\ lastCall'.outcome =
                   (IF /\ source \in ConceptInstances
                       /\ message \in ConceptInstances
                       /\ parameters \in ConceptInstances \cup {None}
                    THEN "ok" ELSE "NotWellFormed")
              /\ UNCHANGED <<ovars, bvars, properties, edge1Properties,
                             edge2Properties, delivered>>]_vars
  /\ [](\A sig \in BagToSet(signals) :
          signalOutcome(ClassOf(sig.source), MessageClass(sig.message), None) = "ok")

\* A signal from the Blackboard with a class as its message has failed.
C30_Witness == lastCall = Call("signal", TheBlackboard, "Concept", "NotWellFormed")

\* ------------------------------------------------ properties of all objects
\* The operations of Concept, Relationship, Ontology and Blackboard that
\* change the object they are called on.
MutatingOperations ==
  {"addProperty", "removeProperty", "removeAllProperties",
   "addEdgeProperty", "removeEdgeProperty", "removeAllEdgeProperties", "edge1", "edge2",
   "addConcept", "removeConcept", "removeAllConcepts",
   "addRelationship", "removeRelationship", "removeAllRelationships",
   "publishConcept", "unpublishConcept", "subscribeToConcept", "unsubscribeFromConcept",
   "subscribeToConceptClass", "unsubscribeFromConceptClass"}

\* The kinds of SelfException.
Errors == {"NotWellFormed", "AlreadyExists", "NotFound", "NotClosed", "Bound"}

HoldersOf(k) == {a \in Agents : CopiesIn(Rel(a, k), b_classSubscriptions) > 0}

\* C31: classSubscribers(k) returns the agents that hold a subscription to the
\* class k itself, whatever they hold to its subclasses and base classes, and
\* fails with NotFound when no agent holds one; classSubscribers() returns the
\* agents that hold a subscription to any class, the empty set when none does.
C31_ClassSubscribers ==
  /\ \A k \in ConceptClasses :
       classSubscribers(k) =
         (IF HoldersOf(k) = {} THEN Result("NotFound", {}) ELSE Result("ok", HoldersOf(k)))
  /\ classSubscribers(None) = Result("ok", UNION {HoldersOf(k) : k \in ConceptClasses})

\* An agent has subscribed to AnotherConcept and no agent holds a subscription
\* to its base class Concept.
C31_Witness ==
  /\ lastCall = BCall("subscribeToConceptClass", "ok")
  /\ HoldersOf("AnotherConcept") = {AgentNames[1]}
  /\ HoldersOf("Concept") = {}

\* C32: signalClassSubscribers(source, message, k) with a Concept class k to
\* which no agent is subscribed fails with NotFound, which is not the
\* NotWellFormed of an ill-formed class, and signals no one; with a class that
\* has subscribers it returns, having signaled each of them once, and the
\* published concepts, the publications and the subscriptions are unchanged.
C32_SignalClassSubscribers ==
  [][lastCall'.op = "signalClassSubscribers" =>
       \A k \in ConceptClasses :
         signalClassSubscribers(Source, Message, k) =>
           /\ UNCHANGED bvars
           /\ IF HoldersOf(k) = {}
                THEN /\ lastCall'.outcome = "NotFound"
                     /\ signals' = EmptyBag
                ELSE /\ lastCall'.outcome = "ok"
                     /\ signals' = OnceEach(HoldersOf(k), Source, Message)]_vars

\* ------------------------------------------- properties at delivery time
\* The record a signal of the Blackboard is about.
Announced(sig) == Rel(sig.message.edge1, sig.message.edge2)

\* The records the signals of one loop are about, as many times as signaled.
Records(round) ==
  [r \in {Announced(sig) : sig \in BagToSet(round)} |->
     Copies({sig \in BagToSet(round) : Announced(sig) = r}, round)]

\* The values _conceptSubscriptions can have when the signal sig of
\* delivered[i] is made: a loop that adds or removes has dealt with the record
\* of sig and, as it visits the set in no fixed order, with any of the others.
SubscriptionsAt(i, sig) ==
  LET o == observed[i]
      others == Records(delivered[i]) (-) One(Announced(sig))
  IN CASE o.loop = "none" -> {o.conceptSubscriptions}
       [] o.loop = "add" ->
            {(o.conceptSubscriptions (+) One(Announced(sig))) (+) X : X \in SubBag(others)}
       [] o.loop = "remove" ->
            {(o.conceptSubscriptions (-) One(Announced(sig))) (-) X : X \in SubBag(others)}

\* C33: when the Blackboard signals an agent, the record the signal announces
\* is already held (signals of a publication, of a subscription to a concept
\* or to a concept class) or no longer held (signals of unpublishConcept,
\* unsubscribeFromConcept and unsubscribeFromConceptClass), so that an agent
\* told that its subscription is withdrawn is not among the subscribers it can
\* query at that moment.
C33_ObservedMatchesAnnounced ==
  \A i \in DOMAIN delivered :
    \A sig \in BagToSet(delivered[i]) :
      sig.source = TheBlackboard =>
        LET r == Announced(sig)
            name == sig.message.name
        IN /\ name = "Published Concept" => CopiesIn(r, observed[i].publications) > 0
           /\ name \in {"Subscribed To Concept", "Subscribed To Concept Class Instance"} =>
                \A S \in SubscriptionsAt(i, sig) : CopiesIn(r, S) > 0
           /\ name = "Subscribed To Concept Class" =>
                CopiesIn(r, observed[i].classSubscriptions) > 0
           /\ name = "Unpublished Concept" => CopiesIn(r, observed[i].publications) = 0
           /\ name \in UnsubscribedFromConcept =>
                \A S \in SubscriptionsAt(i, sig) : CopiesIn(r, S) = 0
           /\ name \in UnsubscribedFromConceptClass =>
                CopiesIn(r, observed[i].classSubscriptions) = 0

\* C34: at every signal call that publishConcept and unpublishConcept make, a
\* concept has a publication exactly when it is among the published concepts,
\* and every subscription to a concept is to a published concept; when the
\* publisher is told that n is unpublished, no subscription to n is held.
C34_InvariantsAtDelivery ==
  lastCall.op \in {"publishConcept", "unpublishConcept"} =>
    \A i \in DOMAIN delivered :
      \A sig \in BagToSet(delivered[i]) :
        /\ \A n \in Concepts :
             n \in observed[i].concepts <=> WithEdge2(observed[i].publications, n) # {}
        /\ \A S \in SubscriptionsAt(i, sig) :
             \A subscription \in BagToSet(S) : subscription.edge2 \in observed[i].concepts

\* C35: unpublishConcept() with no concept, during which the handler of a
\* signaled agent unpublishes another concept that was published when the call
\* began, returns without an error and leaves no published concept, no
\* publication and no subscription to a concept.
C35_ReentrantBulkUnpublish ==
  [][lastCall'.op = "unpublishConcept" =>
       \A at \in Concepts, other \in Concepts :
         unpublishConceptReentrant(at, other) =>
           /\ lastCall'.outcome = "ok"
           /\ b_concepts' = {}
           /\ b_publications' = EmptyBag
           /\ b_conceptSubscriptions' = EmptyBag]_vars

\* C36: unsubscribeFromConceptClass removes class subscriptions only.  The
\* subscriptions to concepts that publishConcept had made manifest for the
\* agent stay (the agent is still a subscriber of the concepts published
\* before), the agent no longer holds the class subscription, and a later
\* publishConcept attaches only the agents that hold a subscription to a class
\* of the concept at that time.
C36_ManifestSubscriptionsStay ==
  [][/\ lastCall'.op = "unsubscribeFromConceptClass" =>
          /\ UNCHANGED <<b_concepts, b_publications, b_conceptSubscriptions>>
          /\ \A n \in b_concepts : subscribers(n)' = subscribers(n)
          /\ \A a \in Agents, k \in ConceptClasses :
               (unsubscribeFromConceptClass(a, k) /\ lastCall'.outcome = "ok") =>
                 a \notin HoldersOf(k)'
     /\ (lastCall'.op = "publishConcept" /\ lastCall'.outcome = "ok") =>
          \A a \in Agents, n \in Concepts :
            CopiesIn(Rel(a, n), b_conceptSubscriptions')
              > CopiesIn(Rel(a, n), b_conceptSubscriptions) =>
                \E k \in ConceptClasses : a \in HoldersOf(k) /\ isinstance(n, k)]_vars

\* An agent has been unsubscribed from a concept class and is still subscribed
\* to a published instance of that class.
C36_Witness ==
  /\ lastCall = BCall("unsubscribeFromConceptClass", "ok")
  /\ \E sig \in BagToSet(signals) :
       /\ sig.to \notin HoldersOf(sig.message.edge2)
       /\ \E n \in b_concepts :
            /\ isinstance(n, sig.message.edge2)
            /\ sig.to \in subscribers(n).agents

\* The agent a holds no subscription to the concept n, or none at all when no
\* concept is given.
NotSubscribed(a, n) ==
  IF n = None THEN WithEdge1(b_conceptSubscriptions, a) = {}
  ELSE CopiesIn(Rel(a, n), b_conceptSubscriptions) = 0

\* The same for the subscriptions to the concept class k.
NotClassSubscribed(a, k) ==
  IF k = None THEN WithEdge1(b_classSubscriptions, a) = {}
  ELSE CopiesIn(Rel(a, k), b_classSubscriptions) = 0

\* C37: unsubscribeFromConcept(a, n) for an agent a and a published concept n
\* to which a holds no subscription returns without an error, changes no
\* collection of the Blackboard and signals no one; so do
\* unsubscribeFromConcept(a) for an agent without a subscription to a concept
\* and unsubscribeFromConceptClass for an agent and a class without a
\* subscription.  removeProperty and removeRelationship of a non-member fail
\* with NotFound.
C37_SilentNoOp ==
  [][/\ lastCall'.op = "unsubscribeFromConcept" =>
          \A a \in Agents, n \in Concepts \cup {None} :
            (/\ unsubscribeFromConcept(a, n)
             /\ n = None \/ n \in b_concepts
             /\ NotSubscribed(a, n)) =>
              /\ lastCall'.outcome = "ok"
              /\ UNCHANGED bvars
              /\ delivered' = <<>>
     /\ lastCall'.op = "unsubscribeFromConceptClass" =>
          \A a \in Agents, k \in ConceptClasses \cup {None} :
            (unsubscribeFromConceptClass(a, k) /\ NotClassSubscribed(a, k)) =>
              /\ lastCall'.outcome = "ok"
              /\ UNCHANGED bvars
              /\ delivered' = <<>>
     /\ lastCall'.op = "removeProperty" =>
          \A property \in Properties :
            (removeProperty(TheConcept, property) /\ property \notin properties[TheConcept]) =>
              lastCall'.outcome = "NotFound"
     /\ lastCall'.op = "removeRelationship" =>
          \A relationship \in Relationships :
            (removeRelationship(relationship) /\ relationship \notin o_relationships) =>
              lastCall'.outcome = "NotFound"]_vars

\* unsubscribeFromConcept has returned without a signal on a Blackboard that
\* holds subscriptions to a published concept: the call named an agent that
\* holds none of them.
C37_Witness ==
  /\ lastCall = BCall("unsubscribeFromConcept", "ok")
  /\ delivered = <<>>
  /\ b_conceptSubscriptions # EmptyBag

====
